---- MODULE Spec2Model ----
(***************************************************************************)
(* A model of casc-cdn: the CASC client (init, getFile, getFiles,          *)
(* getEntryByPath), the file cache behind BlizzardAPI.getData/getConfig,   *)
(* the BLTE decoder and the War3 root manifest parser.                    *)
(*                                                                         *)
(* Buffers and strings that the code inspects byte by byte are sequences   *)
(* of byte values (ASCII codes); keys and hashes, which the code only      *)
(* compares and concatenates, are strings.                                 *)
(***************************************************************************)
EXTENDS Integers, Sequences, FiniteSets, TLC

VARIABLES
    world,          \* what the patch service and the CDN serve (fixed per run)
    pc,             \* position of CascClient.init
    log,            \* init steps completed so far, in completion order
    cdnList,        \* client.cdnList
    cdn,            \* client.cdn
    buildConfig,    \* client.buildConfig
    cdnConfig,      \* client.cdnConfig
    encodingTable,  \* client.encodingTable.entries (cKey -> eKeys)
    indices,        \* client.indices (eKey -> IndexEntry)
    rootFile,       \* client.rootFile.entries
    batchStart,     \* loop variable i of loadArchives
    tasks,          \* state of each loadArchiveIndex promise
    cache,          \* files in the cache directory: name -> content
    netlog,         \* URLs requested over HTTP by the BlizzardAPI calls
    last,           \* the last public call and what it returned
    reader          \* offset and bitOffset of a BufferReader used directly

vars == <<world, pc, log, cdnList, cdn, buildConfig, cdnConfig, encodingTable,
          indices, rootFile, batchStart, tasks, cache, netlog, last, reader>>

None == "none"

\* ------------------------------------------------------------------------
\* Sequence helpers
\* ------------------------------------------------------------------------

Range(s) == {s[i] : i \in 1..Len(s)}

\* the concatenation of a sequence of sequences
RECURSIVE flatten(_)
flatten(seqs) ==
    IF Len(seqs) = 0 THEN <<>> ELSE Head(seqs) \o flatten(Tail(seqs))

\* Buffer.subarray(start, end): both ends clamped to the buffer
subarray(buf, start, end) ==
    LET s == IF start > Len(buf) THEN Len(buf) ELSE start
        e == IF end > Len(buf) THEN Len(buf) ELSE end
    IN  IF e <= s THEN <<>> ELSE SubSeq(buf, s + 1, e)

RECURSIVE SumTo(_, _)
SumTo(f, n) == IF n = 0 THEN 0 ELSE f[n] + SumTo(f, n - 1)

\* ------------------------------------------------------------------------
\* BufferReader reads (src/src/utils/buffer.ts), as functions of the buffer
\* and the byte offset; a read is allowed when ensureAvailable passes
\* ------------------------------------------------------------------------

ensureAvailable(buf, offset, bytes) == offset + bytes <= Len(buf)

uint8(buf, offset) == buf[offset + 1]

uint24be(buf, offset) ==
    buf[offset + 1] * 65536 + buf[offset + 2] * 256 + buf[offset + 3]

uint32be(buf, offset) ==
    buf[offset + 1] * 16777216 + buf[offset + 2] * 65536
        + buf[offset + 3] * 256 + buf[offset + 4]

\* ------------------------------------------------------------------------
\* BufferReader as an object: r holds offset and bitOffset; every operation
\* gives the reader afterwards, also when it throws
\* ------------------------------------------------------------------------

\* new BufferReader(buf)
NewReader == [offset |-> 0, bitOffset |-> 0]

\* BufferReader.alignToByte
alignToByte(r) ==
    IF r.bitOffset # 0 THEN [offset |-> r.offset + 1, bitOffset |-> 0] ELSE r

\* seek without the check against the length of the buffer
seek_noUpperBound(buf, r, position) ==
    IF position < 0 THEN [ok |-> FALSE, value |-> <<>>, reader |-> r]
    ELSE [ok |-> TRUE, value |-> <<>>,
          reader |-> [offset |-> position, bitOffset |-> 0]]

\* BufferReader.seek
seek(buf, r, position) ==
    IF position < 0 \/ position > Len(buf)
    THEN [ok |-> FALSE, value |-> <<>>, reader |-> r]
    ELSE [ok |-> TRUE, value |-> <<>>,
          reader |-> [offset |-> position, bitOffset |-> 0]]

\* BufferReader.skip
skip(buf, r, bytes) == seek(buf, r, r.offset + bytes)

\* the shape shared by uint8 .. uint64le, string(length) and raw(length):
\* alignToByte, ensureAvailable(length), the value decoded from the next
\* length bytes (kept here as those bytes), offset += length
readBytes(buf, r, length) ==
    LET a == alignToByte(r)
    IN  IF ~ensureAvailable(buf, a.offset, length)
        THEN [ok |-> FALSE, value |-> <<>>, reader |-> a]
        ELSE [ok |-> TRUE,
              value |-> subarray(buf, a.offset, a.offset + length),
              reader |-> [a EXCEPT !.offset = a.offset + length]]

\* the bytes each fixed-width read asks ensureAvailable for
ReadWidths ==
    [uint8 |-> 1, uint16be |-> 2, uint24be |-> 3, uint32be |-> 4,
     uint64be |-> 8, uint16le |-> 2, uint32le |-> 4, int32le |-> 4,
     uint64le |-> 8]

\* BufferReader.raw(): the length is this.remaining, taken before
\* alignToByte
raw(buf, r) == readBytes(buf, r, Len(buf) - r.offset)

\* the for loop of BufferReader.bits from pass i: ensureAvailable(1), the
\* bit at bitOffset of the byte at offset, then the bit offset moves on
RECURSIVE bitsLoop(_, _, _, _, _)
bitsLoop(buf, r, i, count, result) ==
    IF i >= count THEN [ok |-> TRUE, value |-> result, reader |-> r]
    ELSE IF ~ensureAvailable(buf, r.offset, 1)
    THEN [ok |-> FALSE, value |-> <<>>, reader |-> r]
    ELSE LET byte == buf[r.offset + 1]
             bit == (byte \div (2 ^ (7 - r.bitOffset))) % 2
             next == IF r.bitOffset + 1 = 8
                     THEN [offset |-> r.offset + 1, bitOffset |-> 0]
                     ELSE [r EXCEPT !.bitOffset = r.bitOffset + 1]
         IN  bitsLoop(buf, next, i + 1, count, result * 2 + bit)

\* BufferReader.bits(count), for counts whose result stays below 2^31
bits(buf, r, count) ==
    IF count <= 0 \/ count > 32
    THEN [ok |-> FALSE, value |-> <<>>, reader |-> r]
    ELSE bitsLoop(buf, r, 0, count, 0)

\* ------------------------------------------------------------------------
\* BLTE decoder (BLTEReader)
\* ------------------------------------------------------------------------

Ok(d) == [ok |-> TRUE, err |-> None, data |-> d]
Err(e) == [ok |-> FALSE, err |-> e, data |-> <<>>]
RangeError == Err("RangeError")

\* "BLTE"
BLTESignature == <<66, 76, 84, 69>>

\* the codec tags 'N', 'Z', '4', 'F', 'E'
TagN == 78
TagZ == 90
Tag4 == 52
TagF == 70
TagE == 69

\* BLTEReader.parseHeader with parseHeaderBlock: the header size and the
\* blocks' sizes, or the error thrown
parseHeader(buf) ==
    IF ~ensureAvailable(buf, 0, 4) THEN RangeError
    ELSE IF SubSeq(buf, 1, 4) # BLTESignature THEN Err("Invalid BLTE signature")
    ELSE IF ~ensureAvailable(buf, 4, 4) THEN RangeError
    ELSE IF uint32be(buf, 4) = 0 THEN Err("Invalid BLTE header size")
    ELSE IF ~ensureAvailable(buf, 8, 1) THEN RangeError
    ELSE IF uint8(buf, 8) \notin {15, 16} THEN Err("Invalid BLTE format")
    ELSE IF ~ensureAvailable(buf, 9, 3) THEN RangeError
    ELSE IF uint24be(buf, 9) = 0 THEN Err("Invalid BLTE blocks count")
    ELSE LET blocksCount == uint24be(buf, 9)
             entrySize == IF uint8(buf, 8) = 16 THEN 40 ELSE 24
         IN  IF ~ensureAvailable(buf, 12, blocksCount * entrySize)
             THEN RangeError
             ELSE [ok |-> TRUE, err |-> None,
                   headerSize |-> uint32be(buf, 4),
                   blocks |-> [i \in 1..blocksCount |->
                       [compressedSize |->
                            uint32be(buf, 12 + (i - 1) * entrySize),
                        decompressedSize |->
                            uint32be(buf, 16 + (i - 1) * entrySize)]]]

\* the offset computed from the decompressed sizes of the earlier blocks
calcBlockOffset_decompressed(hdr, idx) ==
    hdr.headerSize
        + SumTo([j \in 1..idx |-> hdr.blocks[j].decompressedSize], idx)

\* BLTEReader.calcBlockOffset for the block at index idx (from 0)
calcBlockOffset(hdr, idx) ==
    hdr.headerSize + SumTo([j \in 1..idx |-> hdr.blocks[j].compressedSize], idx)

\* zlib.unzipSync and lz4.decode are external libraries.  They stand here as
\* one toy codec, pairs <<count, byte>> expanding to count copies of byte,
\* so that a compressed block's output length differs from its input length.
RECURSIVE inflate(_)
inflate(data) ==
    IF Len(data) = 0 THEN Ok(<<>>)
    ELSE IF Len(data) = 1 THEN Err("incorrect data")
    ELSE LET rest == inflate(SubSeq(data, 3, Len(data)))
         IN  IF ~rest.ok THEN rest
             ELSE Ok([i \in 1..data[1] |-> data[2]] \o rest.data)

\* BLTEReader.processZlibBlock
processZlibBlock(data) == inflate(data)

\* BLTEReader.processLz4Block: version byte, 8-byte size, block shift
processLz4Block(data) ==
    IF ~ensureAvailable(data, 0, 1) THEN RangeError
    ELSE IF uint8(data, 0) # 1 THEN Err("Unknown LZ4 version")
    ELSE IF ~ensureAvailable(data, 1, 8) THEN RangeError
    ELSE IF ~ensureAvailable(data, 9, 1) THEN RangeError
    ELSE inflate(subarray(data, 10, Len(data)))

\* an encrypted block handed on as it is
processEncryptedBlock_passThrough(data) == Ok(data)

\* BLTEReader.processEncryptedBlock
processEncryptedBlock(data) == Err("Not implemented")

RECURSIVE BLTEDecode(_)
RECURSIVE getBlockData(_, _, _)
RECURSIVE blocksDataFrom(_, _, _)

\* BLTEReader.getBlockData(index): block number i (from 1) of the reader
getBlockData(buf, hdr, i) ==
    LET offset == calcBlockOffset(hdr, i - 1)
        size == hdr.blocks[i].compressedSize - 1
    IN  IF offset > Len(buf) THEN RangeError                  \* seek
        ELSE IF ~ensureAvailable(buf, offset, 1) THEN RangeError
        ELSE IF ~ensureAvailable(buf, offset + 1, size) THEN RangeError
        ELSE LET encoding == uint8(buf, offset)
                 data == subarray(buf, offset + 1, offset + 1 + size)
             IN  CASE encoding = TagN -> Ok(data)
                   [] encoding = TagZ -> processZlibBlock(data)
                   [] encoding = Tag4 -> processLz4Block(data)
                   [] encoding = TagF -> BLTEDecode(data)
                   [] encoding = TagE -> processEncryptedBlock(data)
                   [] OTHER -> Err("Unknown encoding")

\* the loop of BLTEReader.getBlocksData from block i on
blocksDataFrom(buf, hdr, i) ==
    IF i > Len(hdr.blocks) THEN Ok(<<>>)
    ELSE LET d == getBlockData(buf, hdr, i)
         IN  IF ~d.ok THEN d
             ELSE LET r == blocksDataFrom(buf, hdr, i + 1)
                  IN  IF ~r.ok THEN r ELSE Ok(d.data \o r.data)

\* new BLTEReader(buf).getBlocksData()
BLTEDecode(buf) ==
    LET hdr == parseHeader(buf)
    IN  IF ~hdr.ok THEN Err(hdr.err) ELSE blocksDataFrom(buf, hdr, 1)


\* ------------------------------------------------------------------------
\* Root manifest, War3 variant (RootFile).  Text is a sequence of character
\* codes.
\* ------------------------------------------------------------------------

ChBackslash == 92
ChSlash == 47
ChPipe == 124
ChColon == 58
ChCR == 13
ChLF == 10
ChSpace == 32

\* "War3"
War3Magic == <<87, 97, 114, 51>>

\* String.prototype.toLowerCase on ASCII text
toLowerCase(str) ==
    [i \in 1..Len(str) |->
        IF str[i] \in 65..90 THEN str[i] + 32 ELSE str[i]]

\* first position (from 1) at which sep occurs in str, 0 if none
indexOf(str, sep) ==
    LET hits == {i \in 1..(Len(str) - Len(sep) + 1) :
                    SubSeq(str, i, i + Len(sep) - 1) = sep}
    IN  IF hits = {} THEN 0
        ELSE CHOOSE i \in hits : \A j \in hits : i <= j

\* String.prototype.includes
includes(str, sub) == Len(sub) = 0 \/ indexOf(str, sub) # 0

\* String.prototype.split on a non-empty separator
RECURSIVE split(_, _)
split(str, sep) ==
    LET i == indexOf(str, sep)
    IN  IF i = 0 THEN <<str>>
        ELSE <<SubSeq(str, 1, i - 1)>>
                 \o split(SubSeq(str, i + Len(sep), Len(str)), sep)

\* line.trim().length > 0
isNotBlank(line) ==
    \E i \in 1..Len(line) : line[i] \notin {ChSpace, ChCR, ChLF, 9, 11, 12}

\* the body of parseWar3's loop for one line: the entry pushed, if any
parseWar3Line(line) ==
    LET parts == split(line, <<ChPipe>>)
    IN  IF Len(parts) < 2 THEN <<>>                  \* skipped
        ELSE IF Len(parts[2]) = 0 THEN <<>>          \* throw, caught: skipped
        ELSE LET filePath == parts[1]
                 scopes == split(filePath, <<ChColon>>)
             IN  <<[contentKey |-> parts[2],
                    locale |-> IF Len(parts) >= 3 THEN parts[3] ELSE <<>>,
                    _normalizedPath |-> toLowerCase(filePath),
                    _scopes |-> SubSeq(scopes, 1, Len(scopes) - 1)]>>

RECURSIVE parseWar3Lines(_)
parseWar3Lines(lines) ==
    IF Len(lines) = 0 THEN <<>>
    ELSE parseWar3Line(Head(lines)) \o parseWar3Lines(Tail(lines))

\* RootFile.parseWar3: the entries of the text that follows the magic
parseWar3(text) ==
    parseWar3Lines(SelectSeq(split(text, <<ChCR, ChLF>>), isNotBlank))

\* the query normalisation of getEntryByPath:
\* path.toLowerCase().replace(/\\+/, '/') replaces the first run of
\* backslashes only (the regular expression has no g flag)
normalizeQuery(path) ==
    LET lower == toLowerCase(path)
        i == indexOf(lower, <<ChBackslash>>)
    IN  IF i = 0 THEN lower
        ELSE LET after == {j \in i..Len(lower) : lower[j] # ChBackslash}
                 end == IF after = {} THEN Len(lower) + 1
                        ELSE CHOOSE j \in after : \A k \in after : j <= k
             IN  SubSeq(lower, 1, i - 1) \o <<ChSlash>>
                     \o SubSeq(lower, end, Len(lower))

\* RootFile.getEntryByPath
getEntryByPath(entries, path) ==
    LET normalizedPath == normalizeQuery(path)
        Keep(e) == /\ "_normalizedPath" \in DOMAIN e
                   /\ includes(e._normalizedPath, normalizedPath)
    IN  SelectSeq(entries, Keep)

\* the magic 'MFST'
MFSTMagic == <<77, 70, 83, 84>>

\* BufferReader.uint32le at a 0-based offset
uint32le(buf, offset) ==
    buf[offset + 1] + buf[offset + 2] * 256 + buf[offset + 3] * 65536
        + buf[offset + 4] * 16777216

\* BufferReader.int32le: two's complement of 32 bits
int32le(buf, offset) ==
    LET top == buf[offset + 4]
    IN  buf[offset + 1] + buf[offset + 2] * 256 + buf[offset + 3] * 65536
            + (IF top >= 128 THEN top - 256 ELSE top) * 16777216

\* a | b for numbers from 0 to 2^31 - 1
RECURSIVE bitOr(_, _)
bitOr(a, b) ==
    IF a = 0 THEN b
    ELSE IF b = 0 THEN a
    ELSE (IF a % 2 = 1 \/ b % 2 = 1 THEN 1 ELSE 0)
             + 2 * bitOr(a \div 2, b \div 2)

\* n & mask # 0 for a mask of one bit and n from 0 to 2^31 - 1
hasBit(n, mask) == (n \div mask) % 2 = 1

\* enum LocaleFlags
LocaleFlags ==
    [enUS |-> 2, koKR |-> 4, frFR |-> 16, deDE |-> 32, zhCN |-> 64,
     esES |-> 128, zhTW |-> 256, enGB |-> 512, enCN |-> 1024, enTW |-> 2048,
     esMX |-> 4096, ruRU |-> 8192, ptBR |-> 16384, itIT |-> 32768,
     ptPT |-> 65536]

\* RootFile.getLocales for a numeric flag: plPL has no bit and stays false
getLocales(localeFlag) ==
    [name \in DOMAIN LocaleFlags \cup {"plPL"} |->
        IF name \in DOMAIN LocaleFlags
        THEN hasBit(localeFlag, LocaleFlags[name])
        ELSE FALSE]

\* the NoNameHash content flag, 0x10000000
NoNameHash == 268435456

\* the ids of the deltas taken as a running sum without the step of one
RECURSIVE fileDataIds_plainSum(_)
fileDataIds_plainSum(deltas) ==
    IF Len(deltas) = 0 THEN <<>>
    ELSE IF Len(deltas) = 1 THEN <<deltas[1]>>
    ELSE LET before == fileDataIds_plainSum(SubSeq(deltas, 1, Len(deltas) - 1))
         IN  Append(before, before[Len(before)] + deltas[Len(deltas)])

\* the loop "Calculate fileDataIDs" of parseBlock: the ids of the deltas
RECURSIVE fileDataIds(_)
fileDataIds(deltas) ==
    IF Len(deltas) = 0 THEN <<>>
    ELSE IF Len(deltas) = 1 THEN <<deltas[1]>>
    ELSE LET before == fileDataIds(SubSeq(deltas, 1, Len(deltas) - 1))
         IN  Append(before, before[Len(before)] + 1 + deltas[Len(deltas)])

\* RootFile.parseBlock with the reader at offset: the entries pushed and the
\* reader's offset after the block, or the error thrown (nothing is pushed
\* before the last read of the block). A name hash is kept as its 8 bytes.
parseBlock(buffer, offset, version, allowNonNamedFiles) ==
    IF Len(buffer) - offset < 8 THEN Err("Insufficient data for block header")
    ELSE IF ~ensureAvailable(buffer, offset, IF version = 2 THEN 17 ELSE 12)
    THEN RangeError
    ELSE LET numRecords == uint32le(buffer, offset)
             locale == IF version = 2 THEN uint32le(buffer, offset + 4)
                       ELSE uint32le(buffer, offset + 8)
             contentFlags ==
                 IF version = 2
                 THEN bitOr(bitOr(uint32le(buffer, offset + 8),
                                  uint32le(buffer, offset + 12)),
                            uint8(buffer, offset + 16) * 131072)
                 ELSE uint32le(buffer, offset + 4)
             atDeltas == offset + (IF version = 2 THEN 17 ELSE 12)
             atKeys == atDeltas + 4 * numRecords
             atHashes == atKeys + 16 * numRecords
             hasNameHashes ==
                 ~(allowNonNamedFiles /\ hasBit(contentFlags, NoNameHash))
             end == IF hasNameHashes THEN atHashes + 8 * numRecords
                    ELSE atHashes
             fileDataIdDeltas ==
                 [i \in 1..numRecords |-> int32le(buffer, atDeltas + 4 * (i - 1))]
             ids == fileDataIds(fileDataIdDeltas)
             entry(i) ==
                 LET e == [fileDataId |-> ids[i],
                           contentKey |-> subarray(buffer, atKeys + 16 * (i - 1),
                                                   atKeys + 16 * i),
                           localeFlags |-> getLocales(locale),
                           contentFlags |-> contentFlags]
                 IN  IF hasNameHashes
                     THEN [k \in DOMAIN e \cup {"nameHash"} |->
                              IF k = "nameHash"
                              THEN subarray(buffer, atHashes + 8 * (i - 1),
                                            atHashes + 8 * i)
                              ELSE e[k]]
                     ELSE e
         IN  IF end > Len(buffer) THEN RangeError
             ELSE [ok |-> TRUE, err |-> None,
                   data |-> [i \in 1..numRecords |-> entry(i)],
                   offset |-> end]

\* the while loop of parseMFST with the reader at offset: the entries of
\* each block parsed, block by block; the first block that throws ends the
\* loop
RECURSIVE parseBlocks(_, _, _, _)
parseBlocks(buffer, offset, version, allowNonNamedFiles) ==
    IF offset >= Len(buffer) THEN <<>>
    ELSE LET block == parseBlock(buffer, offset, version, allowNonNamedFiles)
         IN  IF ~block.ok THEN <<>>
             ELSE <<block.data>>
                      \o parseBlocks(buffer, block.offset, version,
                                     allowNonNamedFiles)

\* RootFile.parseMFST(buffer, 4): the entries block by block, or the
\* RangeError of a buffer that ends inside the manifest header
parseMFST(buffer, startOffset) ==
    IF ~ensureAvailable(buffer, startOffset, 4) THEN RangeError
    ELSE LET possibleHeaderSize == uint32le(buffer, startOffset)
             hasHeader == possibleHeaderSize >= 12 /\ possibleHeaderSize <= 100
             atCounts == IF hasHeader THEN startOffset + 8 ELSE startOffset
             atBlocks == IF hasHeader THEN atCounts + 12 ELSE atCounts + 8
         IN  IF ~ensureAvailable(buffer, atCounts, 8) \/ atBlocks > Len(buffer)
             THEN RangeError
             ELSE LET version == IF hasHeader
                                 THEN uint32le(buffer, startOffset + 4)
                                 ELSE 1
                      totalFileCount == uint32le(buffer, atCounts)
                      namedFileCount == uint32le(buffer, atCounts + 4)
                  IN  Ok(parseBlocks(buffer, atBlocks, version,
                                     totalFileCount # namedFileCount))

\* RootFile.parse: the entries of an MFST or War3 manifest
parseRoot(buffer) ==
    IF subarray(buffer, 0, 4) = MFSTMagic
    THEN LET r == parseMFST(buffer, 4)
         IN  IF r.ok THEN Ok(flatten(r.data)) ELSE r
    ELSE IF subarray(buffer, 0, 4) = War3Magic
    THEN Ok(parseWar3(subarray(buffer, 4, Len(buffer))))
    ELSE Err("Not implemented format")


\* ------------------------------------------------------------------------
\* CascCache and BlizzardAPI
\* ------------------------------------------------------------------------

\* CascCache.get: the file's content, or null when it cannot be read
cacheGet(c, key) ==
    IF key \in DOMAIN c THEN [hit |-> TRUE, data |-> c[key]]
    ELSE [hit |-> FALSE, data |-> <<>>]

\* CascCache.put: writes the file (a failed write is swallowed and leaves
\* the directory as it was; writes succeed here)
cachePut(c, key, data) ==
    [k \in DOMAIN c \cup {key} |-> IF k = key THEN data ELSE c[k]]

\* CascCache.getDataFile
getDataFile(c, cKey) == cacheGet(c, "data_" \o cKey)

\* CascCache.putDataFile
putDataFile(c, cKey, data) == cachePut(c, cKey, data)

\* the URL of a config or data file; the two directory levels taken from
\* the hash are left out
Url(host, path, kind, file) ==
    [host |-> host, path |-> path, kind |-> kind, file |-> file]

\* BlizzardAPI.requestBuffer / request against the CDN: netOk says whether
\* the transfer succeeds when the file exists
request(w, url, netOk) ==
    IF netOk /\ url.file \in DOMAIN w[url.kind]
    THEN Ok(w[url.kind][url.file])
    ELSE Err("Request failed")

\* BlizzardAPI.getData: the buffer returned or the error thrown, the cache
\* afterwards and the URLs requested
getData(w, c, host, path, hash, index, netOk) ==
    LET name == hash \o (IF index THEN ".index" ELSE "")
        cached == getDataFile(c, name)
        url == Url(host, path, "data", name)
        res == request(w, url, netOk)
    IN  IF cached.hit
        THEN [ok |-> TRUE, data |-> cached.data, cache |-> c, urls |-> <<>>]
        ELSE IF ~res.ok
        THEN [ok |-> FALSE, data |-> <<>>, cache |-> c, urls |-> <<url>>]
        ELSE [ok |-> TRUE, data |-> res.data,
              cache |-> putDataFile(c, name, res.data), urls |-> <<url>>]

\* BlizzardAPI.parseConfig: text is a sequence of lines <<key, tokens>>;
\* a later line of the same key replaces an earlier one
parseConfig(text) ==
    [k \in {text[i][1] : i \in 1..Len(text)} |->
        LET is == {i \in 1..Len(text) : text[i][1] = k}
        IN  text[CHOOSE i \in is : \A j \in is : j <= i][2]]

\* BlizzardAPI.getConfig
getConfig(w, c, host, path, hash, netOk) ==
    LET cacheKey == "config_" \o hash
        cached == getDataFile(c, cacheKey)
        url == Url(host, path, "config", hash)
        res == request(w, url, netOk)
    IN  IF cached.hit
        THEN [ok |-> TRUE, data |-> parseConfig(cached.data), cache |-> c,
              urls |-> <<>>]
        ELSE IF ~res.ok
        THEN [ok |-> FALSE, data |-> <<>>, cache |-> c, urls |-> <<url>>]
        ELSE [ok |-> TRUE, data |-> parseConfig(res.data),
              cache |-> putDataFile(c, cacheKey, res.data), urls |-> <<url>>]


\* ------------------------------------------------------------------------
\* The archives on the CDN
\* ------------------------------------------------------------------------

\* the four big-endian bytes of a number below 65536
U32(n) == <<0, 0, n \div 256, n % 256>>

\* a BLTE blob of format 0x0F holding the payload in one 'N' block
BLTEFile(payload) ==
    BLTESignature \o U32(36) \o <<15>> \o <<0, 0, 1>>
        \o U32(Len(payload) + 1) \o U32(Len(payload))
        \o [i \in 1..16 |-> 0] \o <<TagN>> \o payload

\* the archives on the CDN: a1 holds two files, a2 one
ArchiveBlob ==
    [a \in {"a1", "a2"} |->
        IF a = "a1" THEN BLTEFile(<<1>>) \o BLTEFile(<<2, 2>>)
        ELSE BLTEFile(<<3>>)]

\* ------------------------------------------------------------------------
\* CascClient: lookups and downloads
\* ------------------------------------------------------------------------

\* getEKeyByCKey without the fallback to [cKey]: a miss gives no candidate
getEKeyByCKey_noFallback(enc, cKey) ==
    IF cKey \in DOMAIN enc THEN enc[cKey] ELSE <<>>

\* CascClient.getEKeyByCKey (the encoding table is loaded)
getEKeyByCKey(enc, cKey) ==
    IF cKey \in DOMAIN enc THEN enc[cKey] ELSE <<cKey>>

\* CascClient.getLocation: the entry in a one-element sequence, or <<>>
getLocation(idx, eKey) ==
    IF eKey \in DOMAIN idx THEN <<idx[eKey]>> ELSE <<>>

\* CascClient.fetchDirectFromCDN: ok is FALSE when it returns null
fetchDirectFromCDN(w, c, cdnEntry, eKey, netOk) ==
    getData(w, c, cdnEntry.Hosts[1], cdnEntry.Path, eKey, FALSE, netOk)

\* new BLTEReader(buffer.subarray(offset, offset + size)).getBlocksData()
decodeAt(buffer, loc) ==
    BLTEDecode(subarray(buffer, loc.offset, loc.offset + loc.size))

\* the locations of a sequence of eKeys, misses dropped
RECURSIVE locationsOf(_, _)
locationsOf(idx, eKeys) ==
    IF Len(eKeys) = 0 THEN <<>>
    ELSE getLocation(idx, Head(eKeys)) \o locationsOf(idx, Tail(eKeys))

\* getFile returning null, instead of throwing, when the archive cannot be
\* fetched
getFile_nullOnFailedFetch(w, c, enc, idx, cdnEntry, cKey, netOk) ==
    LET locs == locationsOf(idx, getEKeyByCKey(enc, cKey))
    IN  IF Len(locs) = 0
        THEN [status |-> "null", data |-> <<>>, cache |-> c,
              fetched |-> <<>>, urls |-> <<>>]
        ELSE LET loc == Head(locs)
                 got == fetchDirectFromCDN(w, c, cdnEntry, loc.archiveHash,
                                           netOk)
                 dec == decodeAt(got.data, loc)
             IN  [status |-> IF ~got.ok THEN "null"
                             ELSE IF dec.ok THEN "ok" ELSE "error",
                  data |-> IF got.ok /\ dec.ok THEN dec.data ELSE <<>>,
                  cache |-> got.cache,
                  fetched |-> <<loc.archiveHash>>,
                  urls |-> got.urls]

\* CascClient.getFile: status "ok" with the data, "null", or "error";
\* fetched lists the archives asked of fetchDirectFromCDN
getFile(w, c, enc, idx, cdnEntry, cKey, netOk) ==
    LET locs == locationsOf(idx, getEKeyByCKey(enc, cKey))
    IN  IF Len(locs) = 0
        THEN [status |-> "null", data |-> <<>>, cache |-> c,
              fetched |-> <<>>, urls |-> <<>>]
        ELSE LET loc == Head(locs)
                 got == fetchDirectFromCDN(w, c, cdnEntry, loc.archiveHash,
                                           netOk)
                 dec == decodeAt(got.data, loc)
             IN  [status |-> IF got.ok /\ dec.ok THEN "ok" ELSE "error",
                  data |-> IF got.ok /\ dec.ok THEN dec.data ELSE <<>>,
                  cache |-> got.cache,
                  fetched |-> <<loc.archiveHash>>,
                  urls |-> got.urls]

\* cKeys.flatMap(getEKeyByCKey)
RECURSIVE flatEKeys(_, _)
flatEKeys(enc, cKeys) ==
    IF Len(cKeys) = 0 THEN <<>>
    ELSE getEKeyByCKey(enc, Head(cKeys)) \o flatEKeys(enc, Tail(cKeys))

\* the result keyed by the eKey of its location, eKeyToCKey left out
originalCKey_eKey(enc, cKeys, eKey) == eKey

\* eKeyToCKey.get(eKey) || eKey: the map holds, for each candidate eKey,
\* the last cKey of the request that set it
originalCKey(enc, cKeys, eKey) ==
    LET is == {i \in 1..Len(cKeys) :
                  eKey \in Range(getEKeyByCKey(enc, cKeys[i]))}
    IN  IF is = {} THEN eKey
        ELSE cKeys[CHOOSE i \in is : \A j \in is : j <= i]

\* the locations not grouped by archive: one fetch for every location
archiveOrder_perLocation(locs, seen) ==
    [i \in 1..Len(locs) |-> locs[i].archiveHash]

\* the keys of the reduce's record, in insertion order
RECURSIVE archiveOrder(_, _)
archiveOrder(locs, seen) ==
    IF Len(locs) = 0 THEN <<>>
    ELSE IF Head(locs).archiveHash \in seen
    THEN archiveOrder(Tail(locs), seen)
    ELSE <<Head(locs).archiveHash>>
             \o archiveOrder(Tail(locs), seen \cup {Head(locs).archiveHash})

\* the inner loop of getFiles over the locations of one archive: the pairs
\* [originalCKey, data] pushed, and whether every slice decoded
RECURSIVE decodeGroup(_, _, _, _)
decodeGroup(buffer, locs, enc, cKeys) ==
    IF Len(locs) = 0 THEN [ok |-> TRUE, results |-> <<>>]
    ELSE LET dec == decodeAt(buffer, Head(locs))
         IN  IF dec.ok
             THEN LET rest == decodeGroup(buffer, Tail(locs), enc, cKeys)
                  IN  [ok |-> rest.ok,
                       results |->
                           <<<<originalCKey(enc, cKeys, Head(locs).eKey),
                               dec.data>>>> \o rest.results]
             ELSE [ok |-> FALSE, results |-> <<>>]

\* the outer loop body going on to the next archive, instead of throwing,
\* when the archive cannot be fetched
fetchGroup_skipFailed(w, cdnEntry, locs, enc, cKeys, failing, acc, archiveHash) ==
    LET InGroup(loc) == loc.archiveHash = archiveHash
        got == fetchDirectFromCDN(w, acc.cache, cdnEntry, archiveHash,
                                  archiveHash \notin failing)
    IN  IF got.ok
        THEN LET grp == decodeGroup(got.data, SelectSeq(locs, InGroup), enc,
                                    cKeys)
             IN  [ok |-> grp.ok, results |-> acc.results \o grp.results,
                  cache |-> got.cache,
                  fetched |-> Append(acc.fetched, archiveHash)]
        ELSE [ok |-> TRUE, results |-> acc.results, cache |-> got.cache,
              fetched |-> Append(acc.fetched, archiveHash)]

\* one round of the outer loop of getFiles: fetch the archive, decode its
\* slices; acc is the call's progress so far
fetchGroup(w, cdnEntry, locs, enc, cKeys, failing, acc, archiveHash) ==
    LET InGroup(loc) == loc.archiveHash = archiveHash
        got == fetchDirectFromCDN(w, acc.cache, cdnEntry, archiveHash,
                                  archiveHash \notin failing)
    IN  IF got.ok
        THEN LET grp == decodeGroup(got.data, SelectSeq(locs, InGroup), enc,
                                    cKeys)
             IN  [ok |-> grp.ok, results |-> acc.results \o grp.results,
                  cache |-> got.cache,
                  fetched |-> Append(acc.fetched, archiveHash)]
        ELSE [ok |-> FALSE, results |-> acc.results, cache |-> got.cache,
              fetched |-> Append(acc.fetched, archiveHash)]

\* the outer loop of getFiles over the archives still to fetch; it ends at
\* the first throw
RECURSIVE fetchGroups(_, _, _, _, _, _, _, _)
fetchGroups(w, cdnEntry, order, locs, enc, cKeys, failing, acc) ==
    IF Len(order) = 0 \/ ~acc.ok THEN acc
    ELSE fetchGroups(w, cdnEntry, Tail(order), locs, enc, cKeys, failing,
                     fetchGroup(w, cdnEntry, locs, enc, cKeys, failing, acc,
                                Head(order)))

\* Object.fromEntries: a later pair of the same key replaces an earlier one
fromEntries(pairs) ==
    [k \in {pairs[i][1] : i \in 1..Len(pairs)} |->
        LET is == {i \in 1..Len(pairs) : pairs[i][1] = k}
        IN  pairs[CHOOSE i \in is : \A j \in is : j <= i][2]]

\* CascClient.getFiles without a callback: the map returned, or an error
getFiles(w, c, enc, idx, cdnEntry, cKeys, failing) ==
    LET locs == locationsOf(idx, flatEKeys(enc, cKeys))
        run == fetchGroups(w, cdnEntry, archiveOrder(locs, {}), locs, enc,
                           cKeys, failing,
                           [ok |-> TRUE, results |-> <<>>, cache |-> c,
                            fetched |-> <<>>])
    IN  [status |-> IF run.ok THEN "ok" ELSE "error",
         data |-> IF run.ok THEN fromEntries(run.results) ELSE <<>>,
         cache |-> run.cache,
         fetched |-> run.fetched,
         urls |-> <<>>]


\* ------------------------------------------------------------------------
\* What the patch service and the CDN serve
\* ------------------------------------------------------------------------

\* the longest eKeys list of an encoding entry
MaxEKeys == 2
\* the longest cKeys list passed to getFiles
MaxReq == 2

Keys == {"k1", "k2"}

\* the region passed to init
Region == "us"

\* a record of an .index file
IndexRecord(eKey, offset, size) ==
    [eKey |-> eKey, offset |-> offset, size |-> size]

\* the .index files served: two files in one archive, one file in each
\* archive, the same eKey in both archives, no entries, a location outside
\* the archive
IndexWorlds ==
    { [a \in {"a1", "a2"} |->
         IF a = "a1"
         THEN <<IndexRecord("k1", 0, 38), IndexRecord("k2", 38, 39)>>
         ELSE <<>>],
      [a \in {"a1", "a2"} |->
         IF a = "a1" THEN <<IndexRecord("k1", 0, 38)>>
         ELSE <<IndexRecord("k2", 0, 38)>>],
      [a \in {"a1", "a2"} |->
         IF a = "a1" THEN <<IndexRecord("k1", 0, 38)>>
         ELSE <<IndexRecord("k1", 0, 38)>>],
      [a \in {"a1", "a2"} |-> <<>>],
      [a \in {"a1", "a2"} |->
         IF a = "a1" THEN <<IndexRecord("k1", 200, 10)>>
         ELSE <<IndexRecord("k2", 0, 38)>>] }

DefaultIndex ==
    [a \in {"a1", "a2"} |->
        IF a = "a1" THEN <<IndexRecord("k1", 0, 38)>>
        ELSE <<IndexRecord("k2", 0, 38)>>]

\* the encoding tables served: empty, or an entry for k1 with up to MaxEKeys
\* eKeys (a record cut short by the end of the buffer has fewer eKeys than
\* its keyCount, down to none); k2 is never a cKey of the table
EKeyLists == UNION {[1..n -> Keys] : n \in 0..MaxEKeys}
EncodingTables == {<<>>} \cup {[k \in {"k1"} |-> l] : l \in EKeyLists}

DefaultEncoding == [k \in {"k1"} |-> <<"k1">>]

\* the root manifest served: "War3" and the lines  A\b|k1|x  and  c/d|k2
RootText ==
    <<65, ChBackslash, 98, ChPipe, 107, 49, ChPipe, 120, ChCR, ChLF,
      99, ChSlash, 100, ChPipe, 107, 50, ChCR, ChLF>>

RootBlob == BLTEFile(War3Magic \o RootText)

CdnLine(name, path, host) == [Name |-> name, Path |-> path, Hosts |-> <<host>>]

CdnLists ==
    { <<>>,
      <<CdnLine("us", "tpr/p", "h-us")>>,
      <<CdnLine("kr", "tpr/p", "h-kr"), CdnLine("eu", "tpr/p", "h-eu")>>,
      <<CdnLine("eu", "tpr/p", "h-eu"), CdnLine("us", "tpr/p", "h-us")>>,
      <<CdnLine("kr", "tpr/p", "h-kr"), CdnLine("cn", "tpr/p", "h-cn")>>,
      <<CdnLine("us", "", "h-us")>> }

VersionLine(region) ==
    [Region |-> region, BuildConfig |-> "bc", CDNConfig |-> "cc"]

VersionLists == { <<VersionLine("us")>>, <<VersionLine("eu")>> }

BuildTexts ==
    { << <<"encoding", <<"ec", "enc">> >>, <<"root", <<"r1">> >> >>,
      << <<"encoding", <<"enc">> >>, <<"root", <<"r1">> >> >>,
      << <<"root", <<"r1">> >> >>,
      << <<"encoding", <<"ec", "enc">> >> >> }

CdnConfigTexts ==
    { << <<"archives", <<"a1", "a2">> >> >>,
      << <<"archive-group", <<"g">> >> >> }

\* the data files of a world, by file name
DataFiles(enc, idx) ==
    [f \in {"enc", "a1", "a2", "a1.index", "a2.index", "r1"} |->
        CASE f = "enc" -> enc
          [] f = "a1" -> ArchiveBlob["a1"]
          [] f = "a2" -> ArchiveBlob["a2"]
          [] f = "a1.index" -> idx["a1"]
          [] f = "a2.index" -> idx["a2"]
          [] OTHER -> RootBlob]

World(cdns, versions, build, cdncfg, enc, idx) ==
    [cdns |-> cdns, versions |-> versions,
     config |-> [h \in {"bc", "cc"} |-> IF h = "bc" THEN build ELSE cdncfg],
     data |-> DataFiles(enc, idx)]

DefaultBuild == << <<"encoding", <<"ec", "enc">> >>, <<"root", <<"r1">> >> >>
DefaultCdnConfig == << <<"archives", <<"a1", "a2">> >> >>

Worlds ==
    { World(c, v, b, cc, DefaultEncoding, DefaultIndex) :
        c \in CdnLists, v \in VersionLists, b \in BuildTexts,
        cc \in CdnConfigTexts }
    \cup
    { World(<<CdnLine("us", "tpr/p", "h-us")>>, <<VersionLine("us")>>,
            DefaultBuild, DefaultCdnConfig, e, i) :
        e \in EncodingTables, i \in IndexWorlds }


\* ------------------------------------------------------------------------
\* CascClient.init
\* ------------------------------------------------------------------------

\* const batchSize = 10
batchSize == 10

\* Array.prototype.find on the CDN list by Name: <<entry>> or <<>>
findCdn(list, name) ==
    LET is == {i \in 1..Len(list) : list[i].Name = name}
    IN  IF is = {} THEN <<>>
        ELSE <<list[CHOOSE i \in is : \A j \in is : i <= j]>>

\* the selection without the "eu" fallback: by region, else the first
selectCdn_noEu(list, region) ==
    IF findCdn(list, region) # <<>> THEN findCdn(list, region)
    ELSE IF Len(list) = 0 THEN <<>> ELSE <<list[1]>>

\* the CDN entry init selects: by region, else "eu", else the first
selectCdn(list, region) ==
    IF findCdn(list, region) # <<>> THEN findCdn(list, region)
    ELSE IF findCdn(list, "eu") # <<>> THEN findCdn(list, "eu")
    ELSE IF Len(list) = 0 THEN <<>> ELSE <<list[1]>>

\* the CDN entry loadArchiveIndex selects: by region, else the first
selectIndexCdn(list, region) ==
    IF findCdn(list, region) # <<>> THEN findCdn(list, region)
    ELSE IF Len(list) = 0 THEN <<>> ELSE <<list[1]>>

\* the encoding file hash init takes from buildConfig.encoding: "" when the
\* field is missing or empty
encodingFileHash(config) ==
    LET encodingKeys == IF "encoding" \in DOMAIN config
                        THEN config["encoding"] ELSE <<>>
    IN  IF Len(encodingKeys) > 1 THEN encodingKeys[2]
        ELSE IF Len(encodingKeys) = 1 THEN encodingKeys[1]
        ELSE ""

\* buildConfig.root, "" when missing
rootKey(config) ==
    IF "root" \in DOMAIN config THEN config["root"][1] ELSE ""

\* cdnConfig.archives, <<>> when missing
archivesOf(config) ==
    IF "archives" \in DOMAIN config THEN config["archives"] ELSE <<>>

\* parseEncodingTable: the blob stands for the table it decodes to
parseEncodingTable(buffer) == buffer

\* parseIndexEntry(buffer, archiveHash, source): the file stands for the
\* records it holds
parseIndexEntry(buffer, archiveHash, source) ==
    [i \in 1..Len(buffer) |->
        [eKey |-> buffer[i].eKey, size |-> buffer[i].size,
         offset |-> buffer[i].offset, archiveHash |-> archiveHash,
         source |-> source]]

\* entries.forEach((entry) => this.indices.set(entry.eKey, entry))
RECURSIVE setAll(_, _)
setAll(idx, entries) ==
    IF Len(entries) = 0 THEN idx
    ELSE setAll([k \in DOMAIN idx \cup {Head(entries).eKey} |->
                    IF k = Head(entries).eKey THEN Head(entries) ELSE idx[k]],
                Tail(entries))

\* whether loadArchiveIndex returns before fetching anything
indexSkipped(list, region) ==
    \/ Len(list) = 0
    \/ selectIndexCdn(list, region) = <<>>
    \/ selectIndexCdn(list, region)[1].Path = ""

\* loadArchiveIndex without its try/catch: a failed fetch rejects the
\* Promise.all of the batch
loadArchiveIndex_noCatch(w, c, idx, list, region, hash, netOk) ==
    LET cdnEntry == selectIndexCdn(list, region)[1]
        got == getData(w, c, cdnEntry.Hosts[1], cdnEntry.Path, hash, TRUE,
                       netOk)
    IN  IF got.ok
        THEN [indices |-> setAll(idx, parseIndexEntry(got.data, hash, "archive")),
              cache |-> got.cache, urls |-> got.urls, loaded |-> TRUE,
              threw |-> FALSE]
        ELSE [indices |-> idx, cache |-> got.cache, urls |-> got.urls,
              loaded |-> FALSE, threw |-> TRUE]

\* CascClient.loadArchiveIndex from its fetch on: the index map and the cache
\* afterwards, whether the archive was loaded, and whether it threw
loadArchiveIndex(w, c, idx, list, region, hash, netOk) ==
    LET cdnEntry == selectIndexCdn(list, region)[1]
        got == getData(w, c, cdnEntry.Hosts[1], cdnEntry.Path, hash, TRUE,
                       netOk)
    IN  IF got.ok
        THEN [indices |-> setAll(idx, parseIndexEntry(got.data, hash, "archive")),
              cache |-> got.cache, urls |-> got.urls, loaded |-> TRUE,
              threw |-> FALSE]
        ELSE [indices |-> idx, cache |-> got.cache, urls |-> got.urls,
              loaded |-> FALSE, threw |-> FALSE]

\* CascClient.getEKeyFileByCKey from the candidate eKeys on: the first
\* buffer fetchDirectFromCDN returns; failing holds the eKeys whose download
\* fails
RECURSIVE firstFetched(_, _, _, _, _)
firstFetched(w, c, cdnEntry, eKeys, failing) ==
    IF Len(eKeys) = 0
    THEN [ok |-> FALSE, data |-> <<>>, cache |-> c, urls |-> <<>>]
    ELSE LET got == fetchDirectFromCDN(w, c, cdnEntry, Head(eKeys),
                                       Head(eKeys) \notin failing)
             rest == firstFetched(w, got.cache, cdnEntry, Tail(eKeys), failing)
         IN  IF got.ok THEN got
             ELSE [ok |-> rest.ok, data |-> rest.data, cache |-> rest.cache,
                   urls |-> got.urls \o rest.urls]

getEKeyFileByCKey(w, c, enc, cdnEntry, cKey, failing) ==
    firstFetched(w, c, cdnEntry, getEKeyByCKey(enc, cKey), failing)

\* every archive from i on taken as one batch
batchOf_unbounded(archives, i) == {j \in 1..Len(archives) : i < j}

\* the positions in cdnConfig.archives of the batch that starts at i
batchOf(archives, i) ==
    {j \in 1..Len(archives) : i < j /\ j <= i + batchSize}

\* the batch's Promise.all not awaited: loadArchives goes on at once
batchSettled_notAwaited(archives, i, t) == TRUE

\* Promise.all of the batch has resolved
batchSettled(archives, i, t) ==
    \A j \in batchOf(archives, i) : t[j] \in {"done", "failed", "skipped"}

NoCall == [op |-> "none", arg |-> <<>>, status |-> "none", data |-> <<>>,
           fetched |-> <<>>]

InitFailed(cause) ==
    [op |-> "init", arg |-> Region, status |-> "error", data |-> cause,
     fetched |-> <<>>]

InitReturned ==
    [op |-> "init", arg |-> Region, status |-> "ok", data |-> "",
     fetched |-> <<>>]

PatchUrl(what) == Url("patch", "", what, what)

Init ==
    /\ world \in Worlds
    /\ pc = "getCDNs"
    /\ log = <<>>
    /\ cdnList = <<>>
    /\ cdn = <<>>
    /\ buildConfig = <<>>
    /\ cdnConfig = <<>>
    /\ encodingTable = <<>>
    /\ indices = <<>>
    /\ rootFile = [loaded |-> FALSE, entries |-> <<>>]
    /\ batchStart = 0
    /\ tasks = <<>>
    /\ cache = <<>>
    /\ netlog = <<>>
    /\ last = NoCall
    /\ reader = NewReader

\* 1-2. client.cdnList = await api.getCDNs(); select the CDN
GetCDNs(netOk) ==
    /\ pc = "getCDNs"
    /\ netlog' = Append(netlog, PatchUrl("cdns"))
    /\ IF ~netOk
       THEN /\ pc' = "failed"
            /\ last' = InitFailed("getCDNs")
            /\ UNCHANGED <<cdnList, cdn, log>>
       ELSE /\ cdnList' = world.cdns
            /\ IF selectCdn(world.cdns, Region) = <<>>
               THEN /\ pc' = "failed"
                    /\ last' = InitFailed("No CDN found")
                    /\ UNCHANGED <<cdn, log>>
               ELSE /\ cdn' = selectCdn(world.cdns, Region)[1]
                    /\ pc' = "getVersions"
                    /\ log' = Append(log, "cdns")
                    /\ UNCHANGED last
    /\ UNCHANGED <<reader, world, buildConfig, cdnConfig, encodingTable, indices,
                   rootFile, batchStart, tasks, cache>>

\* 3-4. client.versions = await api.getVersions(); select the version
GetVersions(netOk) ==
    /\ pc = "getVersions"
    /\ netlog' = Append(netlog, PatchUrl("versions"))
    /\ IF ~netOk
       THEN /\ pc' = "failed"
            /\ last' = InitFailed("getVersions")
            /\ UNCHANGED log
       ELSE IF \A i \in 1..Len(world.versions) :
                   world.versions[i].Region # Region
       THEN /\ pc' = "failed"
            /\ last' = InitFailed("No version found")
            /\ UNCHANGED log
       ELSE /\ pc' = "getBuildConfig"
            /\ log' = Append(log, "versions")
            /\ UNCHANGED last
    /\ UNCHANGED <<reader, world, cdnList, cdn, buildConfig, cdnConfig, encodingTable,
                   indices, rootFile, batchStart, tasks, cache>>

\* the version line init selected
versionEntry ==
    LET is == {i \in 1..Len(world.versions) :
                  world.versions[i].Region = Region}
    IN  world.versions[CHOOSE i \in is : \A j \in is : i <= j]

\* 5. buildConfigRaw = await api.getConfig(..., buildConfigHash)
GetBuildConfig(netOk) ==
    /\ pc = "getBuildConfig"
    /\ \E got \in {getConfig(world, cache, cdn.Hosts[1], cdn.Path,
                            versionEntry.BuildConfig, netOk)} :
           /\ netlog' = netlog \o got.urls
           /\ cache' = got.cache
           /\ IF got.ok
              THEN /\ buildConfig' = got.data
                   /\ pc' = "getCdnConfig"
                   /\ log' = Append(log, "buildConfig")
                   /\ UNCHANGED last
              ELSE /\ pc' = "failed"
                   /\ last' = InitFailed("getConfig")
                   /\ UNCHANGED <<buildConfig, log>>
    /\ UNCHANGED <<reader, world, cdnList, cdn, cdnConfig, encodingTable, indices,
                   rootFile, batchStart, tasks>>

\* cdnConfigRaw = await api.getConfig(..., cdnConfigHash), then the encoding
\* file hash is taken from the build config
GetCdnConfig(netOk) ==
    /\ pc = "getCdnConfig"
    /\ \E got \in {getConfig(world, cache, cdn.Hosts[1], cdn.Path,
                            versionEntry.CDNConfig, netOk)} :
           /\ netlog' = netlog \o got.urls
           /\ cache' = got.cache
           /\ IF ~got.ok
              THEN /\ pc' = "failed"
                   /\ last' = InitFailed("getConfig")
                   /\ UNCHANGED <<cdnConfig, log>>
              ELSE /\ cdnConfig' = got.data
                   /\ log' = Append(log, "cdnConfig")
                   /\ IF encodingFileHash(buildConfig) = ""
                      THEN /\ pc' = "failed"
                           /\ last' = InitFailed("No encoding file hash found")
                      ELSE /\ pc' = "getEncoding"
                           /\ UNCHANGED last
    /\ UNCHANGED <<reader, world, cdnList, cdn, buildConfig, encodingTable, indices,
                   rootFile, batchStart, tasks>>

\* encodingBuffer = await api.getData(...); parseEncodingTable; loadArchives
\* is entered
GetEncoding(netOk) ==
    /\ pc = "getEncoding"
    /\ \E got \in {getData(world, cache, cdn.Hosts[1], cdn.Path,
                          encodingFileHash(buildConfig), FALSE, netOk)} :
           /\ netlog' = netlog \o got.urls
           /\ cache' = got.cache
           /\ IF got.ok
              THEN /\ encodingTable' = parseEncodingTable(got.data)
                   /\ pc' = "loadArchives"
                   /\ log' = Append(log, "encoding")
                   /\ tasks' = [j \in 1..Len(archivesOf(cdnConfig)) |->
                                   "pending"]
                   /\ UNCHANGED last
              ELSE /\ pc' = "failed"
                   /\ last' = InitFailed("getData")
                   /\ UNCHANGED <<encodingTable, log, tasks>>
    /\ batchStart' = 0
    /\ UNCHANGED <<reader, world, cdnList, cdn, buildConfig, cdnConfig, indices,
                   rootFile>>

\* the URLs the fetches of a batch request, in batch order (none for a file
\* found in the cache)
RECURSIVE batchUrls(_, _, _, _, _)
batchUrls(c, list, region, archives, js) ==
    IF js = {} THEN <<>>
    ELSE LET j == CHOOSE x \in js : \A y \in js : x <= y
             cdnEntry == selectIndexCdn(list, region)[1]
             name == archives[j] \o ".index"
         IN  (IF getDataFile(c, name).hit THEN <<>>
              ELSE <<Url(cdnEntry.Hosts[1], cdnEntry.Path, "data", name)>>)
                 \o batchUrls(c, list, region, archives, js \ {j})

\* loadArchives: batch.map((hash) => this.loadArchiveIndex(hash)) starts
\* every fetch of the batch
StartBatch ==
    /\ pc = "loadArchives"
    /\ batchOf(archivesOf(cdnConfig), batchStart) # {}
    /\ \A j \in batchOf(archivesOf(cdnConfig), batchStart) :
           tasks[j] = "pending"
    /\ tasks' = [j \in DOMAIN tasks |->
                    IF j \in batchOf(archivesOf(cdnConfig), batchStart)
                    THEN IF indexSkipped(cdnList, Region)
                         THEN "skipped" ELSE "inflight"
                    ELSE tasks[j]]
    /\ netlog' = IF indexSkipped(cdnList, Region) THEN netlog
                 ELSE netlog \o batchUrls(cache, cdnList, Region,
                                          archivesOf(cdnConfig),
                                          batchOf(archivesOf(cdnConfig),
                                                  batchStart))
    /\ UNCHANGED <<reader, world, pc, log, cdnList, cdn, buildConfig, cdnConfig,
                   encodingTable, indices, rootFile, batchStart, cache, last>>

\* one loadArchiveIndex of the batch in flight completes
IndexDone(j, netOk) ==
    /\ j \in DOMAIN tasks
    /\ tasks[j] = "inflight"
    /\ \E r \in {loadArchiveIndex(world, cache, indices, cdnList, Region,
                                 archivesOf(cdnConfig)[j], netOk)} :
           /\ indices' = r.indices
           /\ cache' = r.cache
           /\ tasks' = [tasks EXCEPT
                            ![j] = IF r.loaded THEN "done" ELSE "failed"]
           /\ IF r.threw
              THEN /\ pc' = "failed"
                   /\ last' = InitFailed("loadArchiveIndex")
              ELSE UNCHANGED <<pc, last>>
    /\ UNCHANGED <<reader, world, log, cdnList, cdn, buildConfig, cdnConfig,
                   encodingTable, rootFile, batchStart, netlog>>

\* await Promise.all(...) of the batch returns: the next batch, or
\* loadArchives returns and init goes on to the root file
JoinBatch ==
    /\ pc = "loadArchives"
    /\ batchSettled(archivesOf(cdnConfig), batchStart, tasks)
    /\ IF batchStart + batchSize < Len(archivesOf(cdnConfig))
       THEN /\ batchStart' = batchStart + batchSize
            /\ UNCHANGED <<pc, log, last>>
       ELSE /\ log' = Append(log, "archives")
            /\ IF rootKey(buildConfig) # ""
               THEN pc' = "getRoot" /\ UNCHANGED last
               ELSE pc' = "ready" /\ last' = InitReturned
            /\ UNCHANGED batchStart
    /\ UNCHANGED <<reader, world, cdnList, cdn, buildConfig, cdnConfig, encodingTable,
                   indices, rootFile, tasks, cache, netlog>>

\* the root file fetched while the archive indices are still loading
GetRoot_beforeArchives(failing) ==
    /\ pc \in {"loadArchives", "getRoot"}
    /\ LET got == getEKeyFileByCKey(world, cache, encodingTable, cdn,
                                    rootKey(buildConfig), failing)
           dec == BLTEDecode(got.data)
           root == parseRoot(dec.data)
       IN  /\ netlog' = netlog \o got.urls
           /\ cache' = got.cache
           /\ IF ~got.ok
              THEN /\ pc' = "failed"
                   /\ last' = InitFailed("Error while getting root file")
                   /\ UNCHANGED <<rootFile, log>>
              ELSE IF ~dec.ok \/ ~root.ok
              THEN /\ pc' = "failed"
                   /\ last' = InitFailed("root file")
                   /\ UNCHANGED <<rootFile, log>>
              ELSE /\ rootFile' = [loaded |-> TRUE, entries |-> root.data]
                   /\ pc' = "ready"
                   /\ log' = Append(log, "root")
                   /\ last' = InitReturned
    /\ UNCHANGED <<reader, world, cdnList, cdn, buildConfig, cdnConfig, encodingTable,
                   indices, batchStart, tasks>>

\* 6. the root file: getEKeyFileByCKey, BLTE decode, new RootFile
GetRoot(failing) ==
    /\ pc = "getRoot"
    /\ LET got == getEKeyFileByCKey(world, cache, encodingTable, cdn,
                                    rootKey(buildConfig), failing)
           dec == BLTEDecode(got.data)
           root == parseRoot(dec.data)
       IN  /\ netlog' = netlog \o got.urls
           /\ cache' = got.cache
           /\ IF ~got.ok
              THEN /\ pc' = "failed"
                   /\ last' = InitFailed("Error while getting root file")
                   /\ UNCHANGED <<rootFile, log>>
              ELSE IF ~dec.ok \/ ~root.ok
              THEN /\ pc' = "failed"
                   /\ last' = InitFailed("root file")
                   /\ UNCHANGED <<rootFile, log>>
              ELSE /\ rootFile' = [loaded |-> TRUE, entries |-> root.data]
                   /\ pc' = "ready"
                   /\ log' = Append(log, "root")
                   /\ last' = InitReturned
    /\ UNCHANGED <<reader, world, cdnList, cdn, buildConfig, cdnConfig, encodingTable,
                   indices, batchStart, tasks>>


\* ------------------------------------------------------------------------
\* The public calls on an initialized client
\* ------------------------------------------------------------------------

Requests == UNION {[1..n -> Keys] : n \in 0..MaxReq}

\* the paths asked of the client:  A\b  c/d  a
ClientQueries == { <<65, ChBackslash, 98>>, <<99, ChSlash, 100>>, <<97>> }

\* the archives that hold the locations a request resolves to
archivesFor(enc, idx, cKeys) ==
    Range(archiveOrder(locationsOf(idx, flatEKeys(enc, cKeys)), {}))

\* await client.getFile(cKey)
GetFile(cKey, netOk) ==
    /\ pc = "ready"
    /\ \E r \in {getFile(world, cache, encodingTable, indices, cdn, cKey, netOk)} :
           /\ cache' = r.cache
           /\ last' = [op |-> "getFile", arg |-> cKey, status |-> r.status,
                       data |-> r.data, fetched |-> r.fetched]
    /\ UNCHANGED <<reader, world, pc, log, cdnList, cdn, buildConfig, cdnConfig,
                   encodingTable, indices, rootFile, batchStart, tasks,
                   netlog>>

\* await client.getFiles(cKeys)
GetFiles(cKeys, failing) ==
    /\ pc = "ready"
    /\ \E r \in {getFiles(world, cache, encodingTable, indices, cdn, cKeys,
                         failing)} :
           /\ cache' = r.cache
           /\ last' = [op |-> "getFiles", arg |-> cKeys, status |-> r.status,
                       data |-> r.data, fetched |-> r.fetched]
    /\ UNCHANGED <<reader, world, pc, log, cdnList, cdn, buildConfig, cdnConfig,
                   encodingTable, indices, rootFile, batchStart, tasks,
                   netlog>>

\* client.getEntryByPath(path): a TypeError when no root file was loaded
GetEntryByPath(path) ==
    /\ pc = "ready"
    /\ last' = IF rootFile.loaded
               THEN [op |-> "getEntryByPath", arg |-> path, status |-> "ok",
                     data |-> getEntryByPath(rootFile.entries, path),
                     fetched |-> <<>>]
               ELSE [op |-> "getEntryByPath", arg |-> path,
                     status |-> "error", data |-> <<>>, fetched |-> <<>>]
    /\ UNCHANGED <<reader, world, pc, log, cdnList, cdn, buildConfig, cdnConfig,
                   encodingTable, indices, rootFile, batchStart, tasks, cache,
                   netlog>>

Next ==
    \/ \E netOk \in BOOLEAN : GetCDNs(netOk)
    \/ \E netOk \in BOOLEAN : GetVersions(netOk)
    \/ \E netOk \in BOOLEAN : GetBuildConfig(netOk)
    \/ \E netOk \in BOOLEAN : GetCdnConfig(netOk)
    \/ \E netOk \in BOOLEAN : GetEncoding(netOk)
    \/ StartBatch
    \/ \E j \in DOMAIN tasks, netOk \in BOOLEAN : IndexDone(j, netOk)
    \/ JoinBatch
    \/ \E failing \in SUBSET {"r1"} : GetRoot(failing)
    \/ \E cKey \in Keys, netOk \in BOOLEAN : GetFile(cKey, netOk)
    \/ \E cKeys \in Requests :
           \E failing \in SUBSET archivesFor(encodingTable, indices, cKeys) :
               GetFiles(cKeys, failing)
    \/ \E path \in ClientQueries : GetEntryByPath(path)

Spec == Init /\ [][Next]_vars


\* ------------------------------------------------------------------------
\* loadArchives with more archives than one batch holds
\* ------------------------------------------------------------------------

\* the number of archives of the CDN config
ManyArchives == 11

ArchiveNamePool ==
    <<"b01", "b02", "b03", "b04", "b05", "b06", "b07", "b08", "b09", "b10",
      "b11", "b12", "b13", "b14">>

ManyArchiveNames == SubSeq(ArchiveNamePool, 1, ManyArchives)

\* a world whose CDN config lists ManyArchives archives, each with an index
\* of one record; the build config names no root file
ManyWorld(cdns) ==
    [cdns |-> cdns, versions |-> <<VersionLine("us")>>,
     config |-> [h \in {"bc", "cc"} |->
                    IF h = "bc" THEN << <<"encoding", <<"ec", "enc">> >> >>
                    ELSE << <<"archives", ManyArchiveNames>> >>],
     data |-> [f \in {"enc"} \cup {ManyArchiveNames[j] \o ".index" :
                                      j \in 1..ManyArchives} |->
                  IF f = "enc" THEN DefaultEncoding
                  ELSE <<IndexRecord(f, 0, 38)>>]]

ManyWorlds ==
    { ManyWorld(<<CdnLine("us", "tpr/p", "h-us")>>),
      ManyWorld(<<CdnLine("eu", "tpr/p", "h-eu"),
                  CdnLine("us", "tpr/p", "h-us")>>) }

\* init at the call of loadArchives: the CDN list, both configs and the
\* encoding table have been fetched
InitArchives ==
    /\ world \in ManyWorlds
    /\ pc = "loadArchives"
    /\ log = <<"cdns", "versions", "buildConfig", "cdnConfig", "encoding">>
    /\ cdnList = world.cdns
    /\ cdn = selectCdn(world.cdns, Region)[1]
    /\ buildConfig = parseConfig(world.config["bc"])
    /\ cdnConfig = parseConfig(world.config["cc"])
    /\ encodingTable = parseEncodingTable(world.data["enc"])
    /\ indices = <<>>
    /\ rootFile = [loaded |-> FALSE, entries |-> <<>>]
    /\ batchStart = 0
    /\ tasks = [j \in 1..ManyArchives |-> "pending"]
    /\ cache = [k \in {"config_bc", "config_cc", "enc"} |->
                   CASE k = "config_bc" -> world.config["bc"]
                     [] k = "config_cc" -> world.config["cc"]
                     [] OTHER -> world.data["enc"]]
    /\ netlog = <<PatchUrl("cdns"), PatchUrl("versions"),
                  Url(cdn.Hosts[1], cdn.Path, "config", "bc"),
                  Url(cdn.Hosts[1], cdn.Path, "config", "cc"),
                  Url(cdn.Hosts[1], cdn.Path, "data", "enc")>>
    /\ last = NoCall
    /\ reader = NewReader

NextArchives ==
    \/ StartBatch
    \/ \E j \in DOMAIN tasks, netOk \in BOOLEAN : IndexDone(j, netOk)
    \/ JoinBatch

SpecArchives == InitArchives /\ [][NextArchives]_vars


\* ------------------------------------------------------------------------
\* BlizzardAPI with its cache, called directly
\* ------------------------------------------------------------------------

\* the number of API calls made on one cache
MaxCalls == 2

\* the hashes asked of getData ("zz" is on no CDN) and of getConfig
DataHashes == {"a1", "enc", "zz"}
ConfigHashes == {"bc", "cc"}

CacheWorlds ==
    { World(<<CdnLine("us", "tpr/p", "h-us")>>, <<VersionLine("us")>>, b,
            DefaultCdnConfig, DefaultEncoding, DefaultIndex) :
        b \in BuildTexts }

\* a new BlizzardAPI over an empty cache directory
InitCache ==
    /\ world \in CacheWorlds
    /\ pc = "api"
    /\ log = <<>>
    /\ cdnList = <<>>
    /\ cdn = <<>>
    /\ buildConfig = <<>>
    /\ cdnConfig = <<>>
    /\ encodingTable = <<>>
    /\ indices = <<>>
    /\ rootFile = [loaded |-> FALSE, entries |-> <<>>]
    /\ batchStart = 0
    /\ tasks = <<>>
    /\ cache = <<>>
    /\ netlog = <<>>
    /\ last = NoCall
    /\ reader = NewReader

\* the record kept of a completed API call
ApiCall(op, hash, index, r) ==
    [op |-> op, hash |-> hash, index |-> index, ok |-> r.ok, data |-> r.data,
     urls |-> r.urls]

\* await api.getData(host, path, hash, index)
ApiGetData(hash, index, netOk) ==
    /\ pc = "api"
    /\ Len(log) < MaxCalls
    /\ \E r \in {getData(world, cache, "h-us", "tpr/p", hash, index, netOk)} :
           /\ cache' = r.cache
           /\ netlog' = netlog \o r.urls
           /\ log' = Append(log, ApiCall("getData", hash, index, r))
           /\ last' = [op |-> "getData", arg |-> hash,
                       status |-> IF r.ok THEN "ok" ELSE "error",
                       data |-> r.data, fetched |-> r.urls]
    /\ UNCHANGED <<reader, world, pc, cdnList, cdn, buildConfig, cdnConfig,
                   encodingTable, indices, rootFile, batchStart, tasks>>

\* await api.getConfig(host, path, hash)
ApiGetConfig(hash, netOk) ==
    /\ pc = "api"
    /\ Len(log) < MaxCalls
    /\ \E r \in {getConfig(world, cache, "h-us", "tpr/p", hash, netOk)} :
           /\ cache' = r.cache
           /\ netlog' = netlog \o r.urls
           /\ log' = Append(log, ApiCall("getConfig", hash, FALSE, r))
           /\ last' = [op |-> "getConfig", arg |-> hash,
                       status |-> IF r.ok THEN "ok" ELSE "error",
                       data |-> r.data, fetched |-> r.urls]
    /\ UNCHANGED <<reader, world, pc, cdnList, cdn, buildConfig, cdnConfig,
                   encodingTable, indices, rootFile, batchStart, tasks>>

NextCache ==
    \/ \E hash \in DataHashes, index \in BOOLEAN, netOk \in BOOLEAN :
           ApiGetData(hash, index, netOk)
    \/ \E hash \in ConfigHashes, netOk \in BOOLEAN : ApiGetConfig(hash, netOk)

SpecCache == InitCache /\ [][NextCache]_vars


\* ------------------------------------------------------------------------
\* A RootFile built from a War3 manifest, queried directly
\* ------------------------------------------------------------------------

\* the longest path asked of getEntryByPath
MaxQueryLen == 3

\* the text of a manifest line:  path|key  and CRLF
War3Line(l) == l.path \o <<ChPipe>> \o l.key \o <<ChCR, ChLF>>

RECURSIVE War3Text(_)
War3Text(lines) ==
    IF Len(lines) = 0 THEN <<>>
    ELSE War3Line(Head(lines)) \o War3Text(Tail(lines))

\* the paths of the manifests:  A\b  d/a/b  a\\b  /a/
ManifestPaths ==
    { <<65, ChBackslash, 98>>,
      <<100, ChSlash, 97, ChSlash, 98>>,
      <<97, ChBackslash, ChBackslash, 98>>,
      <<ChSlash, 97, ChSlash>> }

\* manifests of one or two lines; line i has the content key "k<i>"
Manifests ==
    { [i \in 1..n |-> [path |-> ps[i], key |-> <<107, 48 + i>>]] :
        n \in 1..2, ps \in [1..2 -> ManifestPaths] }

\* the queries: the texts of up to MaxQueryLen characters over  A b \ /
QueryChars == {65, 98, ChBackslash, ChSlash}
Queries == UNION {[1..n -> QueryChars] : n \in 1..MaxQueryLen}

\* new RootFile(buffer) on the decoded manifest
InitRoot ==
    /\ world \in {[manifest |-> m] : m \in Manifests}
    /\ pc = "root"
    /\ log = <<>>
    /\ cdnList = <<>>
    /\ cdn = <<>>
    /\ buildConfig = <<>>
    /\ cdnConfig = <<>>
    /\ encodingTable = <<>>
    /\ indices = <<>>
    /\ rootFile = [loaded |-> TRUE,
                   entries |->
                       parseRoot(War3Magic \o War3Text(world.manifest)).data]
    /\ batchStart = 0
    /\ tasks = <<>>
    /\ cache = <<>>
    /\ netlog = <<>>
    /\ last = NoCall
    /\ reader = NewReader

\* rootFile.getEntryByPath(path)
RootQuery(path) ==
    /\ pc = "root"
    /\ last' = [op |-> "getEntryByPath", arg |-> path, status |-> "ok",
                data |-> getEntryByPath(rootFile.entries, path),
                fetched |-> <<>>]
    /\ UNCHANGED <<reader, world, pc, log, cdnList, cdn, buildConfig, cdnConfig,
                   encodingTable, indices, rootFile, batchStart, tasks, cache,
                   netlog>>

NextRoot == \E path \in Queries : RootQuery(path)

SpecRoot == InitRoot /\ [][NextRoot]_vars


\* ------------------------------------------------------------------------
\* RootFile on War3 manifests with incomplete lines
\* ------------------------------------------------------------------------

\* the most lines of a manifest
MaxLines == 3

\* the lines of the manifests, as their fields:  A|k1   |k2   B|   C
\* D|k3|x  and a line of one space
LineKinds ==
    { << <<65>>, <<107, 49>> >>,
      << <<>>, <<107, 50>> >>,
      << <<66>>, <<>> >>,
      << <<67>> >>,
      << <<68>>, <<107, 51>>, <<120>> >>,
      << <<ChSpace>> >> }

\* the fields of a line joined by '|'
RECURSIVE joinFields(_)
joinFields(fields) ==
    IF Len(fields) = 1 THEN fields[1]
    ELSE fields[1] \o <<ChPipe>> \o joinFields(Tail(fields))

\* the text of a manifest: every line ends with CR LF
LinesText(lines) ==
    flatten([i \in 1..Len(lines) |-> joinFields(lines[i]) \o <<ChCR, ChLF>>])

InitWar3 ==
    /\ world \in {[lines |-> ls] :
                     ls \in UNION {[1..n -> LineKinds] : n \in 1..MaxLines}}
    /\ pc = "war3"
    /\ log = <<>>
    /\ cdnList = <<>>
    /\ cdn = <<>>
    /\ buildConfig = <<>>
    /\ cdnConfig = <<>>
    /\ encodingTable = <<>>
    /\ indices = <<>>
    /\ rootFile = [loaded |-> FALSE, entries |-> <<>>]
    /\ batchStart = 0
    /\ tasks = <<>>
    /\ cache = <<>>
    /\ netlog = <<>>
    /\ last = NoCall
    /\ reader = NewReader

\* new RootFile(buffer) on the manifest: parseWar3 never throws
ParseWar3 ==
    /\ pc = "war3"
    /\ \E r \in {parseRoot(War3Magic \o LinesText(world.lines))} :
           /\ last' = [op |-> "RootFile", arg |-> "War3",
                       status |-> IF r.ok THEN "ok" ELSE "error",
                       data |-> r.data, fetched |-> <<>>]
           /\ rootFile' = [loaded |-> r.ok, entries |-> r.data]
    /\ pc' = "parsed"
    /\ UNCHANGED <<reader, world, log, cdnList, cdn, buildConfig, cdnConfig,
                   encodingTable, indices, batchStart, tasks, cache, netlog>>

NextWar3 == ParseWar3

SpecWar3 == InitWar3 /\ [][NextWar3]_vars


\* ------------------------------------------------------------------------
\* A BufferReader used directly
\* ------------------------------------------------------------------------

\* the longest buffer given to a reader
MaxBufLen == 9

\* byte i (from 1) of the buffers
PatternByte(i) == (i * 45) % 128

ReaderBuffers == {[i \in 1..n |-> PatternByte(i)] : n \in 0..MaxBufLen}

InitReader ==
    /\ world \in {[buffer |-> b] : b \in ReaderBuffers}
    /\ pc = "reader"
    /\ log = <<>>
    /\ cdnList = <<>>
    /\ cdn = <<>>
    /\ buildConfig = <<>>
    /\ cdnConfig = <<>>
    /\ encodingTable = <<>>
    /\ indices = <<>>
    /\ rootFile = [loaded |-> FALSE, entries |-> <<>>]
    /\ batchStart = 0
    /\ tasks = <<>>
    /\ cache = <<>>
    /\ netlog = <<>>
    /\ last = NoCall
    /\ reader = NewReader

\* the reader after the operation, and in last the operation, its argument,
\* the reader before it, and the value returned or the RangeError thrown
Called(op, arg, r) ==
    /\ pc = "reader"
    /\ reader' = r.reader
    /\ last' = [op |-> op, arg |-> arg, before |-> reader,
                status |-> IF r.ok THEN "ok" ELSE "RangeError",
                data |-> r.value, fetched |-> <<>>]
    /\ UNCHANGED <<world, pc, log, cdnList, cdn, buildConfig, cdnConfig,
                   encodingTable, indices, rootFile, batchStart, tasks, cache,
                   netlog>>

Seek(position) ==
    \E r \in {seek(world.buffer, reader, position)} : Called("seek", position, r)

Skip(bytes) ==
    \E r \in {skip(world.buffer, reader, bytes)} : Called("skip", bytes, r)

\* uint8(), uint16be(), .. uint64le()
ReadFixed(op) ==
    \E r \in {readBytes(world.buffer, reader, ReadWidths[op])} :
        Called(op, ReadWidths[op], r)

\* string(length)
String(length) ==
    \E r \in {readBytes(world.buffer, reader, length)} :
        Called("string", length, r)

\* raw(length)
RawLength(length) ==
    \E r \in {readBytes(world.buffer, reader, length)} :
        Called("raw", length, r)

\* raw()
RawRest ==
    \E r \in {raw(world.buffer, reader)} :
        Called("rawRest", Len(world.buffer) - reader.offset, r)

Bits(count) ==
    \E r \in {bits(world.buffer, reader, count)} : Called("bits", count, r)

NextReader ==
    \/ \E position \in -1..(MaxBufLen + 1) : Seek(position)
    \/ \E bytes \in {-2, -1, 0, 1, 3} : Skip(bytes)
    \/ \E op \in DOMAIN ReadWidths : ReadFixed(op)
    \/ \E length \in {0, 1, 2, 5} : String(length)
    \/ \E length \in {0, 1, 3} : RawLength(length)
    \/ RawRest
    \/ \E count \in {0, 1, 3, 8, 9, 33} : Bits(count)

SpecReader == InitReader /\ [][NextReader]_vars


\* ------------------------------------------------------------------------
\* A BLTEReader on its own
\* ------------------------------------------------------------------------

\* the most blocks of a BLTE blob
MaxBlocks == 2

\* a codec tag outside N, Z, 4, F, E: 'X'
TagX == 88

\* a block as its writer describes it: the codec tag, the bytes after the
\* tag, and the decompressedSize declared in the header
Block(tag, payload, declared) ==
    [tag |-> tag, payload |-> payload, declared |-> declared]

\* the blocks blobs are made of: plain blocks of 0, 1 and 2 bytes; a plain
\* block declaring 5 bytes for 1; compressed blocks that expand to 7 7, one
\* that does not inflate, an lz4 block of version 2; a nested BLTE frame; an
\* encrypted block; a block of codec 'X'
BlockKinds ==
    { Block(TagN, <<>>, 0), Block(TagN, <<1>>, 1), Block(TagN, <<2, 3>>, 2),
      Block(TagN, <<1>>, 5),
      Block(TagZ, <<2, 7>>, 2), Block(TagZ, <<1>>, 1),
      Block(Tag4, <<1, 0, 0, 0, 0, 0, 0, 0, 2, 0, 2, 7>>, 2),
      Block(Tag4, <<2, 0, 0, 0, 0, 0, 0, 0, 2, 0, 2, 7>>, 2),
      Block(TagF, BLTEFile(<<5>>), 1),
      Block(TagE, <<9>>, 1),
      Block(TagX, <<9>>, 1) }

\* the block table of a header: compressedSize, decompressedSize, a 16-byte
\* hash, and for format 0x10 a second hash
RECURSIVE BlockTable(_, _)
BlockTable(format, blocks) ==
    IF Len(blocks) = 0 THEN <<>>
    ELSE U32(Len(Head(blocks).payload) + 1) \o U32(Head(blocks).declared)
             \o [i \in 1..(IF format = 16 THEN 32 ELSE 16) |-> 0]
             \o BlockTable(format, Tail(blocks))

RECURSIVE BlockData(_)
BlockData(blocks) ==
    IF Len(blocks) = 0 THEN <<>>
    ELSE <<Head(blocks).tag>> \o Head(blocks).payload
             \o BlockData(Tail(blocks))

\* a BLTE blob: signature, header size, format, block count, block table,
\* pad bytes that the header size counts in, and the blocks
BLTEBlob(format, blocks, pad) ==
    LET table == BlockTable(format, blocks)
    IN  BLTESignature \o U32(12 + Len(table) + pad) \o <<format>>
            \o <<0, 0, Len(blocks)>> \o table \o [i \in 1..pad |-> 0]
            \o BlockData(blocks)

\* what reaches the decoder: the blob, the blob without its last byte, or
\* the blob with a wrong signature
Damaged(blob, damage) ==
    CASE damage = "truncated" -> SubSeq(blob, 1, Len(blob) - 1)
      [] damage = "signature" -> <<66, 76, 84, 70>> \o SubSeq(blob, 5, Len(blob))
      [] OTHER -> blob

BlockLists == UNION {[1..n -> BlockKinds] : n \in 1..MaxBlocks}

\* the deepest nesting of 'F' blocks
MaxNesting == 9

\* a blob of one plain block wrapped n times into a blob of one 'F' block
RECURSIVE Nested(_)
Nested(n) ==
    IF n = 0 THEN BLTEFile(<<5>>)
    ELSE BLTEBlob(15, <<Block(TagF, Nested(n - 1), 1)>>, 0)

BLTEWorlds ==
    { [format |-> f, blocks |-> bs, pad |-> pad, damage |-> d,
       blob |-> Damaged(BLTEBlob(f, bs, pad), d)] :
        f \in {15, 16}, bs \in BlockLists, pad \in {0, 1},
        d \in {"none", "truncated", "signature"} }
    \cup
    { [format |-> 15, blocks |-> <<Block(TagF, Nested(n - 1), 1)>>,
       pad |-> 0, damage |-> "none", blob |-> Nested(n), nesting |-> n] :
        n \in 2..MaxNesting }

InitBLTE ==
    /\ world \in BLTEWorlds
    /\ pc = "blte"
    /\ log = <<>>
    /\ cdnList = <<>>
    /\ cdn = <<>>
    /\ buildConfig = <<>>
    /\ cdnConfig = <<>>
    /\ encodingTable = <<>>
    /\ indices = <<>>
    /\ rootFile = [loaded |-> FALSE, entries |-> <<>>]
    /\ batchStart = 0
    /\ tasks = <<>>
    /\ cache = <<>>
    /\ netlog = <<>>
    /\ last = NoCall
    /\ reader = NewReader

\* the buffers getBlockData has returned when getBlocksData ends: those of
\* the blocks before the first one that throws
RECURSIVE blocksDecoded(_, _, _)
blocksDecoded(buf, hdr, i) ==
    IF i > Len(hdr.blocks) THEN <<>>
    ELSE IF ~getBlockData(buf, hdr, i).ok THEN <<>>
    ELSE <<getBlockData(buf, hdr, i).data>> \o blocksDecoded(buf, hdr, i + 1)

\* new BLTEReader(blob).getBlocksData(); log keeps the block buffers
\* returned on the way
BlteDecode ==
    /\ pc = "blte"
    /\ \E r \in {BLTEDecode(world.blob)} :
           last' = [op |-> "decode", arg |-> world.blob,
                    status |-> IF r.ok THEN "ok" ELSE "error",
                    data |-> r.data, fetched |-> <<>>]
    /\ \E hdr \in {parseHeader(world.blob)} :
           log' = IF hdr.ok THEN blocksDecoded(world.blob, hdr, 1) ELSE <<>>
    /\ pc' = "decoded"
    /\ UNCHANGED <<reader, world, cdnList, cdn, buildConfig, cdnConfig, encodingTable,
                   indices, rootFile, batchStart, tasks, cache, netlog>>

NextBLTE == BlteDecode

SpecBLTE == InitBLTE /\ [][NextBLTE]_vars


\* ------------------------------------------------------------------------
\* parseIndexEntry on the bytes of an index file
\* ------------------------------------------------------------------------

pageSize == 4096

\* the largest size of an index entry: 2 * 1024 * 1024
maxEntrySize == 2097152

\* the bytes of one index record
recordSize == 24

\* Math.ceil(a / b) for a >= 0, b > 0
ceilDiv(a, b) == (a + b - 1) \div b

\* the buffer with the footer keeping every byte
cutFooter_keepAll(buffer) == buffer

\* "Cutting off footer block": a buffer that is not page aligned loses its
\* last, partial page
cutFooter(buffer) ==
    LET isPageAligned == Len(buffer) % pageSize = 0
        pagesCount == ceilDiv(Len(buffer), pageSize)
    IN  IF isPageAligned THEN buffer
        ELSE subarray(buffer, 0, (pagesCount - 1) * pageSize)

\* one pass through the body of the while loop of parseIndexEntry with the
\* reader at offset: a RangeError of the reader ends the loop ("break"), an
\* invalid size is thrown and swallowed ("skip"), otherwise the entry is
\* pushed
indexLoopBody(buffer, offset, archiveHash, source) ==
    IF \/ ~ensureAvailable(buffer, offset, 16)
       \/ ~ensureAvailable(buffer, offset + 16, 4)
       \/ ~ensureAvailable(buffer, offset + 20, 4)
    THEN [outcome |-> "break"]
    ELSE LET entry == [eKey |-> subarray(buffer, offset, offset + 16),
                       size |-> uint32be(buffer, offset + 16),
                       offset |-> uint32be(buffer, offset + 20),
                       archiveHash |-> archiveHash,
                       source |-> source]
         IN  IF entry.size < 0 \/ entry.size > maxEntrySize
             THEN [outcome |-> "skip"]
             ELSE [outcome |-> "push", entry |-> entry]

\* the loop leaves at pass j (from 0): the reader is at eof or the body
\* breaks; every pass before it has read one record, so pass j starts at
\* offset j * 24
loopLeavesAt(buffer, j) ==
    \/ j * recordSize >= Len(buffer)
    \/ indexLoopBody(buffer, j * recordSize, "", "").outcome = "break"

\* the number of passes that read a record
loopPasses(buffer) ==
    CHOOSE j \in 0..(Len(buffer) \div recordSize + 1) :
        /\ loopLeavesAt(buffer, j)
        /\ \A i \in 0..(j - 1) : ~loopLeavesAt(buffer, i)

\* the output of the while loop of parseIndexEntry
readIndexEntries(buffer, archiveHash, source) ==
    LET passes == [j \in 1..loopPasses(buffer) |->
                      indexLoopBody(buffer, (j - 1) * recordSize,
                                    archiveHash, source)]
        pushed == SelectSeq(passes, LAMBDA p : p.outcome = "push")
    IN  [j \in 1..Len(pushed) |-> pushed[j].entry]

\* parseIndexEntry(buffer, archiveHash, source) on bytes; an eKey is kept as
\* its 16 bytes
parseIndexEntry_bytes(buffer, archiveHash, source) ==
    readIndexEntries(cutFooter(buffer), archiveHash, source)

\* the most records written at the head of an index buffer
MaxRecords == 2

\* the four bytes of a size field
SizeFields ==
    { <<0, 0, 0, 5>>, <<0, 0, 0, 0>>, <<0, 32, 0, 0>>, <<0, 32, 0, 1>>,
      <<1, 0, 0, 0>> }

\* a record: 16 bytes of eKey, the size, the offset
IndexRecordBytes(keyByte, sizeField, offsetByte) ==
    [i \in 1..16 |-> keyByte] \o sizeField \o <<0, 0, 0, offsetByte>>

HeadRecords ==
    UNION { [1..n -> {IndexRecordBytes(9, sz, 7) : sz \in SizeFields}] :
              n \in 0..MaxRecords }

\* byte i (from 0) of the fill of an index buffer: record k = i \div 24 has
\* eKey bytes (k % 5) + 1, size k % 3 and offset k
fillByte(i) ==
    LET k == i \div recordSize
        pos == i % recordSize
    IN  IF pos < 16 THEN (k % 5) + 1
        ELSE IF pos < 19 THEN 0
        ELSE IF pos = 19 THEN k % 3
        ELSE IF pos < 22 THEN 0
        ELSE IF pos = 22 THEN (k \div 256) % 256
        ELSE k % 256

\* the lengths of index buffers: empty, less than a page, one byte short of
\* a page, one page, a page and a few bytes, two pages, two pages and a few
\* bytes
IndexLengths == {0, 30, 4095, 4096, 4100, 8192, 8200}

\* an index buffer of the given length: the head records, then the fill
IndexBuffer(head, length) ==
    LET h == flatten(head)
    IN  [i \in 1..length |-> IF i <= Len(h) THEN h[i] ELSE fillByte(i - 1)]

IndexWorldsBytes ==
    { [head |-> h, buffer |-> IndexBuffer(h, n)] :
        h \in HeadRecords, n \in IndexLengths }

InitIndex ==
    /\ world \in IndexWorldsBytes
    /\ pc = "index"
    /\ log = <<>>
    /\ cdnList = <<>>
    /\ cdn = <<>>
    /\ buildConfig = <<>>
    /\ cdnConfig = <<>>
    /\ encodingTable = <<>>
    /\ indices = <<>>
    /\ rootFile = [loaded |-> FALSE, entries |-> <<>>]
    /\ batchStart = 0
    /\ tasks = <<>>
    /\ cache = <<>>
    /\ netlog = <<>>
    /\ last = NoCall
    /\ reader = NewReader

\* parseIndexEntry(buffer, "a1", "archive"); it never throws
ParseIndex ==
    /\ pc = "index"
    /\ \E r \in {parseIndexEntry_bytes(world.buffer, "a1", "archive")} :
           last' = [op |-> "parseIndexEntry", arg |-> "a1", status |-> "ok",
                    data |-> r, fetched |-> <<>>]
    /\ pc' = "parsed"
    /\ UNCHANGED <<reader, world, log, cdnList, cdn, buildConfig, cdnConfig,
                   encodingTable, indices, rootFile, batchStart, tasks, cache,
                   netlog>>

NextIndex == ParseIndex

SpecIndex == InitIndex /\ [][NextIndex]_vars


\* ------------------------------------------------------------------------
\* EncodingTable.parse on the bytes of a decoded encoding file
\* ------------------------------------------------------------------------

\* buffer.readUInt16BE(offset), offset from 0
readUInt16BE(buffer, offset) == buffer[offset + 1] * 256 + buffer[offset + 2]

\* buffer.readUIntBE(offset, 5): a number of 40 bits, kept as its top byte
\* and its low 32 bits
readUIntBE5(buffer, offset) ==
    [high |-> buffer[offset + 1], low |-> uint32be(buffer, offset + 1)]

min(a, b) == IF a < b THEN a ELSE b

\* entries.set(cKey, entry) on a map kept as a function
mapSet(map, key, value) ==
    [k \in DOMAIN map \cup {key} |-> IF k = key THEN value ELSE map[k]]

\* the for loop "Read EKeys" from pass i with the cursor given: the eKeys
\* pushed and the cursor after the loop; the loop breaks when the next eKey
\* does not fit in the buffer
RECURSIVE readEKeys(_, _, _, _, _)
readEKeys(buffer, cursor, i, keyCount, eKeyLength) ==
    IF i >= keyCount THEN [eKeys |-> <<>>, cursor |-> cursor]
    ELSE IF cursor + eKeyLength > Len(buffer)
         THEN [eKeys |-> <<>>, cursor |-> cursor]
    ELSE LET rest == readEKeys(buffer, cursor + eKeyLength, i + 1, keyCount,
                               eKeyLength)
         IN  [eKeys |-> <<subarray(buffer, cursor, cursor + eKeyLength)>>
                            \o rest.eKeys,
              cursor |-> rest.cursor]

\* the while loop "Parse entries in this page" from the cursor given
RECURSIVE parsePage(_, _, _, _, _, _)
parsePage(buffer, cursor, pageEnd, cKeyLength, eKeyLength, entries) ==
    IF ~(cursor < pageEnd) THEN entries
    ELSE IF cursor + 6 > Len(buffer) THEN entries
    ELSE LET keyCount == uint8(buffer, cursor)
             fileSize == readUIntBE5(buffer, cursor + 1)
             atCKey == cursor + 6
             cKey == subarray(buffer, atCKey, atCKey + cKeyLength)
             read == readEKeys(buffer, atCKey + cKeyLength, 0, keyCount,
                               eKeyLength)
         IN  IF keyCount = 0 THEN entries
             ELSE IF atCKey + cKeyLength > Len(buffer) THEN entries
             ELSE parsePage(buffer, read.cursor, pageEnd, cKeyLength,
                            eKeyLength,
                            mapSet(entries, cKey,
                                   [cKey |-> cKey, eKeys |-> read.eKeys,
                                    fileSize |-> fileSize]))

\* the for loop over the pages from pageIdx with currentOffset given; hdr
\* holds the fields read from the header
RECURSIVE parsePages(_, _, _, _, _)
parsePages(buffer, pageIdx, currentOffset, hdr, entries) ==
    IF ~(pageIdx < hdr.ceKeyPageCount) THEN entries
    ELSE IF currentOffset >= Len(buffer) THEN entries
    ELSE LET pageStart == currentOffset
             pageMaxSize == hdr.ceKeyPageSizeKB * 1024
             pageEnd == min(pageStart + pageMaxSize, Len(buffer))
         IN  parsePages(buffer, pageIdx + 1, pageStart + pageMaxSize, hdr,
                        parsePage(buffer, pageStart, pageEnd, hdr.cKeyLength,
                                  hdr.eKeyLength, entries))

\* new EncodingTable(buffer): the entries map, keyed by the bytes of the
\* cKey, or the error thrown
EncodingTableParse(buffer) ==
    IF Len(buffer) < 22 THEN Err("Buffer too small for Encoding Table")
    ELSE IF subarray(buffer, 0, 2) # <<69, 78>> THEN Err("Invalid signature")
    ELSE LET hdr == [cKeyLength |-> uint8(buffer, 3),
                     eKeyLength |-> uint8(buffer, 4),
                     ceKeyPageSizeKB |-> readUInt16BE(buffer, 5),
                     ceKeyPageCount |-> uint32be(buffer, 9)]
             eSpecBlockSize == uint32be(buffer, 18)
             headerSize == 22
             eSpecEnd == headerSize + eSpecBlockSize
             ceKeyPagesStart == eSpecEnd + hdr.ceKeyPageCount * 32
         IN  Ok(parsePages(buffer, 0, ceKeyPagesStart, hdr, <<>>))

\* the most records written to a page of an encoding table
MaxTableRecords == 2

\* keys of two bytes
Key2(b) == <<b, b>>

\* a record of a page as its writer describes it
TableRecord(cKey, eKeys) ==
    [keyCount |-> Len(eKeys), fileSize |-> 7, cKey |-> cKey, eKeys |-> eKeys]

TableRecords ==
    { TableRecord(Key2(1), <<Key2(3)>>),
      TableRecord(Key2(1), <<Key2(4), Key2(3)>>),
      TableRecord(Key2(2), <<Key2(4)>>),
      TableRecord(Key2(2), <<Key2(3), Key2(4), Key2(4)>>) }

RecordBytes(r) ==
    <<r.keyCount, 0, 0, 0, 0, r.fileSize>> \o r.cKey \o flatten(r.eKeys)

RECURSIVE PageBytes(_)
PageBytes(records) ==
    IF Len(records) = 0 THEN <<>>
    ELSE RecordBytes(Head(records)) \o PageBytes(Tail(records))

\* the 22 bytes of the header: 'EN', version 1, key lengths 2 and 2, pages
\* of 1 KB, the page count, an encoding-spec block of one byte
TableHeader(pageCount) ==
    <<69, 78, 1, 2, 2, 0, 1, 0, 1>> \o U32(pageCount) \o U32(0) \o <<0>>
        \o U32(1)

\* a page filled up with zero bytes
PaddedPage(records) ==
    LET b == PageBytes(records)
    IN  [i \in 1..1024 |-> IF i <= Len(b) THEN b[i] ELSE 0]

\* the record of the second page of a table of two pages
SecondPageRecord == TableRecord(Key2(5), <<Key2(6)>>)

\* the buffers of a table with the given records: one padded page; one
\* page that ends with its last record, whole or short of its last 1, 2 or
\* 3 bytes; two pages; a wrong signature; less than a header
TableLayouts ==
    {"padded", "cut0", "cut1", "cut2", "cut3", "twoPages", "signature",
     "tiny"}

TableBuffer(records, layout) ==
    LET body(pageCount) ==
            TableHeader(pageCount) \o <<0>> \o [i \in 1..(32 * pageCount) |-> 0]
        short(k) ==
            LET b == body(1) \o PageBytes(records)
            IN  SubSeq(b, 1, Len(b) - k)
    IN  CASE layout = "padded" -> body(1) \o PaddedPage(records)
          [] layout = "cut0" -> short(0)
          [] layout = "cut1" -> short(1)
          [] layout = "cut2" -> short(2)
          [] layout = "cut3" -> short(3)
          [] layout = "twoPages" ->
                 body(2) \o PaddedPage(records) \o RecordBytes(SecondPageRecord)
          [] layout = "signature" -> <<69, 69>> \o Tail(Tail(short(0)))
          [] OTHER -> SubSeq(short(0), 1, 21)

TableWorlds ==
    { [records |-> rs, layout |-> l, buffer |-> TableBuffer(rs, l)] :
        rs \in UNION {[1..n -> TableRecords] : n \in 0..MaxTableRecords},
        l \in TableLayouts }

InitEncoding ==
    /\ world \in TableWorlds
    /\ pc = "encoding"
    /\ log = <<>>
    /\ cdnList = <<>>
    /\ cdn = <<>>
    /\ buildConfig = <<>>
    /\ cdnConfig = <<>>
    /\ encodingTable = <<>>
    /\ indices = <<>>
    /\ rootFile = [loaded |-> FALSE, entries |-> <<>>]
    /\ batchStart = 0
    /\ tasks = <<>>
    /\ cache = <<>>
    /\ netlog = <<>>
    /\ last = NoCall
    /\ reader = NewReader

\* new EncodingTable(buffer)
ParseEncoding ==
    /\ pc = "encoding"
    /\ \E r \in {EncodingTableParse(world.buffer)} :
           /\ last' = [op |-> "EncodingTable", arg |-> world.layout,
                       status |-> IF r.ok THEN "ok" ELSE "error",
                       data |-> r.data, fetched |-> <<>>]
           /\ encodingTable' = IF r.ok THEN r.data ELSE encodingTable
    /\ pc' = "parsed"
    /\ UNCHANGED <<reader, world, log, cdnList, cdn, buildConfig, cdnConfig, indices,
                   rootFile, batchStart, tasks, cache, netlog>>

NextEncoding == ParseEncoding

SpecEncoding == InitEncoding /\ [][NextEncoding]_vars


\* ------------------------------------------------------------------------
\* RootFile on an MFST manifest
\* ------------------------------------------------------------------------

\* the most records of a block of a manifest
MaxDeltas == 2

\* the four little-endian bytes of a number from 0 to 2^31 - 1
U32LE(n) ==
    <<n % 256, (n \div 256) % 256, (n \div 65536) % 256, n \div 16777216>>

\* the four little-endian bytes of a number of 32 bits in two's complement
I32LE(d) ==
    IF d >= 0 THEN U32LE(d)
    ELSE LET b == U32LE(d + 2147483647 + 1)
         IN  <<b[1], b[2], b[3], b[4] + 128>>

\* a block as its writer describes it
MFSTBlock(deltas, locale, contentFlags) ==
    [deltas |-> deltas, locale |-> locale, contentFlags |-> contentFlags]

\* blocks of up to MaxDeltas records with deltas 0, 5 and -2, for enUS with
\* name hashes, and for enUS, koKR and ptPT flagged NoNameHash
MFSTBlocks ==
    { MFSTBlock(d, lf[1], lf[2]) :
        d \in UNION {[1..n -> {0, 5, -2}] : n \in 0..MaxDeltas},
        lf \in {<<2, 0>>, <<65542, NoNameHash>>} }

\* the block that follows the first one in a manifest of two blocks
SecondBlocks == { MFSTBlock(<<3, 0>>, 4, 0), MFSTBlock(<<10, 0, 4>>, 2, 0) }

\* the bytes of a block: the record count, flags and locale in the order of
\* the version, the deltas, the content keys 1, 2, .., and the name hashes
\* when the block has them
BlockBytes(b, version, withHashes) ==
    LET n == Len(b.deltas)
    IN  U32LE(n)
            \o (IF version = 2
                THEN U32LE(b.locale) \o U32LE(b.contentFlags) \o U32LE(0) \o <<0>>
                ELSE U32LE(b.contentFlags) \o U32LE(b.locale))
            \o flatten([i \in 1..n |-> I32LE(b.deltas[i])])
            \o flatten([i \in 1..n |-> [k \in 1..16 |-> i]])
            \o (IF withHashes THEN flatten([i \in 1..n |-> [k \in 1..8 |-> i + 100]])
                ELSE <<>>)

\* the headers of a manifest: the two counts alone, equal or not, or a
\* header of 24 bytes of version 1 or 2 with unequal counts
MFSTHeaders == {"counts", "unequal", "version1", "version2"}

HeaderVersion(header) == IF header = "version2" THEN 2 ELSE 1

HeaderBytes(header) ==
    CASE header = "counts" -> U32LE(3) \o U32LE(3)
      [] header = "unequal" -> U32LE(5) \o U32LE(3)
      [] OTHER -> U32LE(24) \o U32LE(HeaderVersion(header)) \o U32LE(5)
                      \o U32LE(3) \o U32LE(0)

\* whether the writer gives the block name hashes
WithHashes(b, header) ==
    ~(header # "counts" /\ hasBit(b.contentFlags, NoNameHash))

MFSTBuffer(blocks, header, cut) ==
    LET b == MFSTMagic \o HeaderBytes(header)
                 \o flatten([i \in 1..Len(blocks) |->
                                BlockBytes(blocks[i], HeaderVersion(header),
                                           WithHashes(blocks[i], header))])
    IN  SubSeq(b, 1, Len(b) - cut)

MFSTWorlds ==
    { [blocks |-> bs, header |-> h, cut |-> cut,
       buffer |-> MFSTBuffer(bs, h, cut)] :
        bs \in {<<b>> : b \in MFSTBlocks}
                 \cup {<<b, c>> : b \in MFSTBlocks, c \in SecondBlocks},
        h \in MFSTHeaders, cut \in {0, 1} }

InitMFST ==
    /\ world \in MFSTWorlds
    /\ pc = "mfst"
    /\ log = <<>>
    /\ cdnList = <<>>
    /\ cdn = <<>>
    /\ buildConfig = <<>>
    /\ cdnConfig = <<>>
    /\ encodingTable = <<>>
    /\ indices = <<>>
    /\ rootFile = [loaded |-> FALSE, entries |-> <<>>]
    /\ batchStart = 0
    /\ tasks = <<>>
    /\ cache = <<>>
    /\ netlog = <<>>
    /\ last = NoCall
    /\ reader = NewReader

\* new RootFile(buffer); log keeps the entries block by block
ParseRoot ==
    /\ pc = "mfst"
    /\ \E r \in {parseRoot(world.buffer)} :
           /\ last' = [op |-> "RootFile", arg |-> world.header,
                       status |-> IF r.ok THEN "ok" ELSE "error",
                       data |-> r.data, fetched |-> <<>>]
           /\ rootFile' = IF r.ok THEN [loaded |-> TRUE, entries |-> r.data]
                          ELSE rootFile
    /\ \E b \in {parseMFST(world.buffer, 4)} : log' = b.data
    /\ pc' = "parsed"
    /\ UNCHANGED <<reader, world, cdnList, cdn, buildConfig, cdnConfig, encodingTable,
                   indices, batchStart, tasks, cache, netlog>>

NextMFST == ParseRoot

SpecMFST == InitMFST /\ [][NextMFST]_vars


\* ------------------------------------------------------------------------
\* Properties of getFile and getFiles
\* ------------------------------------------------------------------------

\* the candidate eKeys of a cKey: encoding[cKey], or [cKey] when the table
\* has no entry
candidates(cKey) ==
    IF cKey \in DOMAIN encodingTable THEN encodingTable[cKey] ELSE <<cKey>>

\* the candidates of a cKey that have an entry in the index map
indexed(cKey) == {e \in Range(candidates(cKey)) : e \in DOMAIN indices}

\* the decoded bytes of the file the index map locates under an eKey
decodedAt(eKey) ==
    BLTEDecode(subarray(world.data[indices[eKey].archiveHash],
                        indices[eKey].offset,
                        indices[eKey].offset + indices[eKey].size))

\* C1: for a cKey that has no entry in the encoding table, getFile(cKey)
\* does what it would do if the table mapped cKey to [cKey]: it returns null
\* when cKey is no key of the index map, and otherwise fetches the archive of
\* indices[cKey] and returns the BLTE-decoded bytes at that location.
C1_AbsentCKeyIsItsOwnEKey ==
    /\ pc = "ready" =>
         \A cKey \in Keys \ DOMAIN encodingTable : \A netOk \in BOOLEAN :
             getFile(world, cache, encodingTable, indices, cdn, cKey, netOk)
               = getFile(world, cache, (cKey :> <<cKey>>) @@ encodingTable,
                         indices, cdn, cKey, netOk)
    /\ (last.op = "getFile" /\ last.arg \notin DOMAIN encodingTable) =>
         IF last.arg \in DOMAIN indices
         THEN /\ last.status # "null"
              /\ last.fetched = <<indices[last.arg].archiveHash>>
              /\ last.status = "ok" =>
                     /\ decodedAt(last.arg).ok
                     /\ last.data = decodedAt(last.arg).data
         ELSE last.status = "null" /\ last.fetched = <<>>

\* a getFile of a cKey absent from the encoding table has returned the file
\* the index map locates under the cKey
C1_Witness ==
    /\ last.op = "getFile"
    /\ last.arg \notin DOMAIN encodingTable
    /\ last.arg \in DOMAIN indices
    /\ last.status = "ok"
    /\ Len(last.data) > 0

\* C2: after a successful init, getFile(cKey) returns null, raising no
\* error, exactly when no candidate eKey of cKey has an entry in the index
\* map.
C2_NullIffNoCandidateIndexed ==
    last.op = "getFile" =>
        (last.status = "null" <=> indexed(last.arg) = {})

\* getFile has returned null for a cKey that is itself a key of the index
\* map, because the encoding table gives it other candidates, none indexed
C2_Witness ==
    /\ last.op = "getFile"
    /\ last.status = "null"
    /\ last.arg \in DOMAIN encodingTable
    /\ Len(encodingTable[last.arg]) > 0
    /\ last.arg \in DOMAIN indices

\* getFile has raised an error although a candidate is indexed
C2_WitnessError ==
    /\ last.op = "getFile"
    /\ last.status = "error"
    /\ indexed(last.arg) # {}

\* C3: a getFiles call without a callback in which every fetch and decode
\* succeeds returns a map that has a key for every requested cKey with a
\* candidate eKey in the index map, and the value under that key is the
\* decoded bytes of one of that cKey's own candidates.
C3_EveryResolvableCKeyIsAKey ==
    (last.op = "getFiles" /\ last.status = "ok") =>
        \A i \in 1..Len(last.arg) :
            indexed(last.arg[i]) # {} =>
                /\ last.arg[i] \in DOMAIN last.data
                /\ \E e \in indexed(last.arg[i]) :
                       last.data[last.arg[i]] = decodedAt(e).data

\* the distinct archiveHash values among the locations a request resolves to
resolvedArchives(cKeys) ==
    UNION {{indices[e].archiveHash : e \in indexed(cKeys[i])} :
               i \in 1..Len(cKeys)}

noRepeats(s) == \A i, j \in 1..Len(s) : s[i] = s[j] => i = j

\* C4 as stated: in every getFiles call the number of archive fetches equals
\* the number of distinct archiveHash values among the resolved locations,
\* and no archive is fetched twice.
C4_FetchCountInEveryCall ==
    last.op = "getFiles" =>
        /\ Len(last.fetched) = Cardinality(resolvedArchives(last.arg))
        /\ noRepeats(last.fetched)

\* C4, amended: in every getFiles call no archive is fetched twice and only
\* archives of resolved locations are fetched; in a call that completes
\* without an error the number of fetches equals the number of distinct
\* archiveHash values among the resolved locations.
C4_FetchOncePerArchive ==
    last.op = "getFiles" =>
        /\ noRepeats(last.fetched)
        /\ Range(last.fetched) \subseteq resolvedArchives(last.arg)
        /\ last.status = "ok" =>
               Range(last.fetched) = resolvedArchives(last.arg)

\* a getFiles call has completed for two files that lie in the same archive
C4_Witness ==
    /\ last.op = "getFiles"
    /\ last.status = "ok"
    /\ Cardinality(DOMAIN last.data) = 2
    /\ Len(last.fetched) = 1

\* a getFiles call has completed after fetching two archives
C4_WitnessTwoArchives ==
    /\ last.op = "getFiles"
    /\ last.status = "ok"
    /\ Len(last.fetched) = 2


\* ------------------------------------------------------------------------
\* Properties of the cache
\* ------------------------------------------------------------------------

\* C5: once a getData (or getConfig) has completed successfully, a later
\* call with the same hash and index flag succeeds with the same result and
\* issues no network request.
C5_LaterCallServedFromCache ==
    \A i, j \in 1..Len(log) :
        (/\ i < j
         /\ log[i].ok
         /\ log[i].op = log[j].op
         /\ log[i].hash = log[j].hash
         /\ log[i].index = log[j].index)
            => /\ log[j].ok
               /\ log[j].data = log[i].data
               /\ log[j].urls = <<>>


\* ------------------------------------------------------------------------
\* Properties of getEntryByPath
\* ------------------------------------------------------------------------

\* text with every run of backslashes replaced by one '/'
RECURSIVE collapseBackslashes(_)
collapseBackslashes(str) ==
    IF Len(str) = 0 THEN <<>>
    ELSE IF Head(str) # ChBackslash
    THEN <<Head(str)>> \o collapseBackslashes(Tail(str))
    ELSE IF Len(str) > 1 /\ str[2] = ChBackslash
    THEN collapseBackslashes(Tail(str))
    ELSE <<ChSlash>> \o collapseBackslashes(Tail(str))

\* lower-cased, every run of backslashes replaced by one '/'
fullyNormalized(str) == collapseBackslashes(toLowerCase(str))

\* C6: on one manifest, getEntryByPath returns the same entries for any two
\* queries that are equal after lower-casing and replacing every run of
\* backslashes by one '/'.
C6_EqualQueriesEqualEntries ==
    (last.op = "getEntryByPath" /\ last.status = "ok") =>
        \A q \in Queries :
            fullyNormalized(q) = fullyNormalized(last.arg) =>
                getEntryByPath(rootFile.entries, q) = last.data

\* C7: the entry of a manifest line with path P is among the entries
\* getEntryByPath(Q) returns whenever Q is a substring of P after both are
\* lower-cased and have their backslashes replaced by forward slashes; in
\* particular a path written with backslashes in the manifest is found by
\* the same path in lower case with forward slashes.  Stated for the
\* queries Q that contain no backslash, so that only the treatment of the
\* manifest's paths decides it.
C7_FoundBySlashedLowerCasePath ==
    (/\ last.op = "getEntryByPath"
     /\ last.status = "ok"
     /\ ChBackslash \notin Range(last.arg)) =>
        \A i \in 1..Len(world.manifest) :
            includes(fullyNormalized(world.manifest[i].path),
                     fullyNormalized(last.arg))
                => \E k \in 1..Len(last.data) :
                       last.data[k].contentKey = world.manifest[i].key


\* ------------------------------------------------------------------------
\* Properties of init
\* ------------------------------------------------------------------------

\* the steps of init, in the order of the code
StepOrder ==
    <<"cdns", "versions", "buildConfig", "cdnConfig", "encoding", "archives",
      "root">>

\* the step of init a request belongs to, as a position in StepOrder
StepOf(url) ==
    CASE url.kind = "cdns" -> 1
      [] url.kind = "versions" -> 2
      [] url.kind = "config" /\ url.file = "bc" -> 3
      [] url.kind = "config" -> 4
      [] url.kind = "data" /\ url.file = "enc" -> 5
      [] url.kind = "data" /\ url.file \in {"a1.index", "a2.index"} -> 6
      [] OTHER -> 7

\* C8: init performs its steps in the order CDN list, version list, build
\* config and CDN config, encoding table, archive indices, root manifest:
\* the steps completed so far are a prefix of that order, a request of a
\* step is issued only after every earlier step has completed, the archive
\* step is complete only when every index load has settled, and init returns
\* only after its last step has completed.
C8_StepsInOrder ==
    /\ Len(log) <= Len(StepOrder)
    /\ \A i \in 1..Len(log) : log[i] = StepOrder[i]
    /\ \A i \in 1..Len(netlog) : StepOf(netlog[i]) <= Len(log) + 1
    /\ \A i, j \in 1..Len(netlog) :
           i < j => StepOf(netlog[i]) <= StepOf(netlog[j])
    /\ Len(log) < 5 => tasks = <<>> /\ indices = <<>>
    /\ Len(log) >= 6 =>
           \A j \in DOMAIN tasks : tasks[j] \in {"done", "failed", "skipped"}
    /\ rootFile.loaded => Len(log) = 7
    /\ pc = "ready" =>
           /\ Len(log) >= 6
           /\ rootKey(buildConfig) # "" => Len(log) = 7 /\ rootFile.loaded

\* init has returned after all seven steps, with an index loaded
C8_Witness ==
    /\ pc = "ready"
    /\ log = StepOrder
    /\ \E j \in DOMAIN tasks : tasks[j] = "done"
    /\ rootFile.loaded
    /\ Len(netlog) = 8

\* C9: after init has returned, no getFile, getFiles or getEntryByPath
\* call, failing or not, changes the encoding table, the index map or the
\* root manifest entries.
C9_TablesFrozenAfterInit ==
    [][pc = "ready" =>
          /\ encodingTable' = encodingTable
          /\ indices' = indices
          /\ rootFile' = rootFile]_vars

\* a getFiles call on the initialized client has failed, with tables loaded
C9_Witness ==
    /\ pc = "ready"
    /\ last.op = "getFiles"
    /\ last.status = "error"
    /\ DOMAIN indices # {}
    /\ DOMAIN encodingTable # {}
    /\ rootFile.loaded

\* the positions of the archives whose index was fetched and parsed
loadedArchives == {j \in DOMAIN tasks : tasks[j] = "done"}

\* the entries parseIndexEntry gives for the index file of archive j
entriesOf(j) ==
    parseIndexEntry(world.data[archivesOf(cdnConfig)[j] \o ".index"],
                    archivesOf(cdnConfig)[j], "archive")

\* C10: a failed index load of an archive does not make init fail, and once
\* the archive step is complete the index map holds exactly the eKeys of the
\* archives whose index was fetched and parsed, each with an entry of such
\* an archive (its only entry, when one loaded archive lists the eKey).
C10_FailedIndexSkipped ==
    /\ pc = "failed" => last.data # "loadArchiveIndex"
    /\ (\E j \in DOMAIN tasks : tasks[j] = "failed") =>
           pc \in {"loadArchives", "getRoot", "ready", "failed"}
    /\ Len(log) >= 6 =>
           /\ \A j \in loadedArchives : \A k \in 1..Len(entriesOf(j)) :
                  /\ entriesOf(j)[k].eKey \in DOMAIN indices
                  /\ \E j2 \in loadedArchives :
                         indices[entriesOf(j)[k].eKey] \in Range(entriesOf(j2))
           /\ \A e \in DOMAIN indices :
                  \E j \in loadedArchives : indices[e] \in Range(entriesOf(j))

\* init has returned although one index load failed, and the index map
\* holds the entries of the archive that was loaded
C10_Witness ==
    /\ pc = "ready"
    /\ last.op = "init"
    /\ last.status = "ok"
    /\ \E j \in DOMAIN tasks : tasks[j] = "failed"
    /\ \E j \in loadedArchives : Len(entriesOf(j)) > 0
    /\ DOMAIN indices # {}


\* ------------------------------------------------------------------------
\* Failed downloads in getFile and getFiles
\* ------------------------------------------------------------------------

\* the archive is not served from the cache, so that it is downloaded
downloaded(archiveHash) == ~getDataFile(cache, archiveHash).hit

\* C11: a getFile or getFiles call in which the download of an archive blob
\* fails ends with an error: it returns neither null nor a result map.
C11_FailedDownloadIsAnError ==
    pc = "ready" =>
        /\ \A cKey \in Keys :
               LET r == getFile(world, cache, encodingTable, indices, cdn,
                                cKey, FALSE)
               IN  (r.fetched # <<>> /\ downloaded(r.fetched[1])) =>
                       r.status = "error" /\ r.data = <<>>
        /\ \A cKeys \in Requests :
               \A failing \in SUBSET resolvedArchives(cKeys) :
                   (\E a \in failing : downloaded(a)) =>
                       LET r == getFiles(world, cache, encodingTable, indices,
                                         cdn, cKeys, failing)
                       IN  r.status = "error" /\ r.data = <<>>

\* a getFiles call has ended with an error at its second archive although
\* every location of the index map decodes: the download failed
C11_Witness ==
    /\ pc = "ready"
    /\ last.op = "getFiles"
    /\ last.status = "error"
    /\ Len(last.fetched) = 2
    /\ \A e \in DOMAIN indices : decodedAt(e).ok


\* ------------------------------------------------------------------------
\* The CDN init selects
\* ------------------------------------------------------------------------

\* the positions of the entries of the served CDN list with a given Name
named(name) == {i \in 1..Len(world.cdns) : world.cdns[i].Name = name}

\* C12: init selects the CDN entry whose Name is the requested region; if
\* there is none, the entry named "eu"; if there is none, the first entry of
\* the list; and it fails with "No CDN found" when the list is empty.
C12_CdnByRegionThenEuThenFirst ==
    /\ Len(log) >= 1 =>
           /\ world.cdns # <<>>
           /\ cdn \in Range(world.cdns)
           /\ IF named(Region) # {} THEN cdn.Name = Region
              ELSE IF named("eu") # {} THEN cdn.Name = "eu"
              ELSE cdn = world.cdns[1]
    /\ (pc = "failed" /\ last.data = "No CDN found") => world.cdns = <<>>
    /\ (world.cdns = <<>> /\ pc # "getCDNs") =>
           /\ pc = "failed"
           /\ last.data \in {"getCDNs", "No CDN found"}

\* init has gone on with the first entry of a list that names neither the
\* region nor "eu"
C12_Witness ==
    /\ Len(log) >= 1
    /\ Len(world.cdns) = 2
    /\ cdn.Name \notin {Region, "eu"}
    /\ cdn = world.cdns[1]

\* init has selected the entry of the region although "eu" comes first
C12_WitnessRegion ==
    /\ Len(log) >= 1
    /\ world.cdns[1].Name = "eu"
    /\ cdn.Name = Region

\* init has failed on an empty CDN list
C12_WitnessNoCdn ==
    /\ pc = "failed"
    /\ last.data = "No CDN found"
    /\ world.cdns = <<>>


\* ------------------------------------------------------------------------
\* Properties of the BLTE decoder
\* ------------------------------------------------------------------------

RECURSIVE payloads(_)
payloads(blocks) ==
    IF Len(blocks) = 0 THEN <<>>
    ELSE Head(blocks).payload \o payloads(Tail(blocks))

\* the bytes of the blob that the header makes block i's payload: the
\* compressedSize[i] - 1 bytes after the tag at headerSize + the sum of the
\* compressed sizes of the blocks before i
RECURSIVE sizesBefore(_, _)
sizesBefore(blocks, i) ==
    IF i = 1 THEN 0
    ELSE Len(blocks[i - 1].payload) + 1 + sizesBefore(blocks, i - 1)

payloadInBlob(w, i) ==
    LET tagAt == 12 + Len(BlockTable(w.format, w.blocks)) + w.pad
                     + sizesBefore(w.blocks, i)
    IN  SubSeq(w.blob, tagAt + 2, tagAt + 1 + Len(w.blocks[i].payload))

RECURSIVE payloadsInBlob(_, _)
payloadsInBlob(w, i) ==
    IF i > Len(w.blocks) THEN <<>>
    ELSE payloadInBlob(w, i) \o payloadsInBlob(w, i + 1)

\* the blob is whole and all its blocks have codec N
plainBlob(w) ==
    /\ w.damage = "none"
    /\ \A i \in 1..Len(w.blocks) : w.blocks[i].tag = TagN

\* C13: the decoded output of a valid BLTE blob all of whose blocks have
\* codec N is the concatenation, in block order, of the block payloads,
\* block i's payload being the compressedSize[i] - 1 bytes after its tag at
\* headerSize + sum of compressedSize[0..i).
C13_PlainBlocksConcatenated ==
    (pc = "decoded" /\ plainBlob(world)) =>
        /\ last.status = "ok"
        /\ last.data = payloads(world.blocks)
        /\ last.data = payloadsInBlob(world, 1)

\* a blob of two plain blocks, the second after a pad byte, has been decoded
C13_Witness ==
    /\ pc = "decoded"
    /\ plainBlob(world)
    /\ Len(world.blocks) = 2
    /\ world.pad = 1
    /\ Len(world.blocks[1].payload) = 2
    /\ Len(world.blocks[2].payload) = 1
    /\ last.data = <<2, 3, 1>>

\* C14: for every block of a BLTE blob that decodes successfully, the
\* length of the block's decoded output is the decompressedSize declared
\* for the block in the header.
C14_DecodedLengthAsDeclared ==
    (pc = "decoded" /\ last.status = "ok") =>
        \A i \in 1..Len(log) :
            Len(log[i]) = parseHeader(world.blob).blocks[i].decompressedSize

\* C15: decoding a BLTE blob fails with an error and yields no output
\* whenever one of its blocks has codec tag 'E' or a codec tag outside
\* N, Z, 4, F, E.
C15_EncryptedOrUnknownCodecFails ==
    (/\ pc = "decoded"
     /\ \E i \in 1..Len(world.blocks) :
            world.blocks[i].tag \notin {TagN, TagZ, Tag4, TagF}) =>
        last.status = "error" /\ last.data = <<>>

\* a whole blob whose first block decodes and whose second block is
\* encrypted has been refused
C15_Witness ==
    /\ pc = "decoded"
    /\ world.damage = "none"
    /\ Len(world.blocks) = 2
    /\ world.blocks[2].tag = TagE
    /\ Len(log) = 1
    /\ last.status = "error"

\* a whole blob whose only block has codec 'X' has been refused
C15_WitnessUnknown ==
    /\ pc = "decoded"
    /\ world.damage = "none"
    /\ Len(world.blocks) = 1
    /\ world.blocks[1].tag = TagX
    /\ last.status = "error"


\* ------------------------------------------------------------------------
\* Properties of parseIndexEntry
\* ------------------------------------------------------------------------

\* C16: every IndexEntry emitted by parseIndexEntry has 0 < size <= 2 MiB;
\* a record of size 0 (padding) is never emitted.
C16_EmittedSizesPositive ==
    pc = "parsed" =>
        \A i \in 1..Len(last.data) :
            0 < last.data[i].size /\ last.data[i].size <= maxEntrySize

\* record k (from 0) of a buffer, as the three fields of an entry
recordAt(buffer, k) ==
    [eKey |-> SubSeq(buffer, k * recordSize + 1, k * recordSize + 16),
     size |-> uint32be(buffer, k * recordSize + 16),
     offset |-> uint32be(buffer, k * recordSize + 20),
     archiveHash |-> "a1", source |-> "archive"]

\* the entries of the whole 24-byte records among the first n bytes whose
\* size is at most 2 MiB
entriesWithin(buffer, n) ==
    SelectSeq([k \in 1..(n \div recordSize) |-> recordAt(buffer, k - 1)],
              LAMBDA e : e.size <= maxEntrySize)

\* C17: for an input whose length is not a multiple of 4096, only the first
\* ceil(length / 4096) - 1 pages are read as 24-byte records, the final
\* partial page being discarded; an input whose length is a multiple of
\* 4096 is read whole.
C17_PartialLastPageDiscarded ==
    pc = "parsed" =>
        LET n == Len(world.buffer)
        IN  last.data =
                entriesWithin(world.buffer,
                              IF n % pageSize = 0 THEN n
                              ELSE (ceilDiv(n, pageSize) - 1) * pageSize)

\* a buffer of two pages and 8 bytes has been parsed: the 341 whole records
\* of the two pages were read and nothing of the last 8 bytes
C17_Witness ==
    /\ pc = "parsed"
    /\ Len(world.buffer) = 8200
    /\ Len(world.head) = 0
    /\ Len(last.data) = 341

\* a buffer of exactly one page has been parsed whole
C17_WitnessAligned ==
    /\ pc = "parsed"
    /\ Len(world.buffer) = pageSize
    /\ Len(world.head) = 0
    /\ Len(last.data) = 170


\* ------------------------------------------------------------------------
\* Properties of EncodingTable.parse
\* ------------------------------------------------------------------------

\* the records written to the buffer, those of the second page included
recordsWritten(w) ==
    IF w.layout = "twoPages" THEN w.records \o <<SecondPageRecord>>
    ELSE w.records

\* C18: after an encoding-table buffer has been parsed and accepted, every
\* entry has at least one eKey and its eKeys are exactly the keyCount eKeys
\* of its record, in the order of the record.
C18_EntryHoldsItsRecordsEKeys ==
    (pc = "parsed" /\ last.status = "ok") =>
        \A cKey \in DOMAIN encodingTable :
            /\ Len(encodingTable[cKey].eKeys) >= 1
            /\ \E i \in 1..Len(recordsWritten(world)) :
                   LET r == recordsWritten(world)[i]
                   IN  /\ r.cKey = cKey
                       /\ Len(encodingTable[cKey].eKeys) = r.keyCount
                       /\ encodingTable[cKey].eKeys = r.eKeys

\* the same for the buffers that hold every record whole
C18_WholeRecordsKept ==
    (pc = "parsed" /\ last.status = "ok"
        /\ world.layout \in {"padded", "cut0", "twoPages"}) =>
        /\ DOMAIN encodingTable =
               {recordsWritten(world)[i].cKey :
                    i \in 1..Len(recordsWritten(world))}
        /\ \A cKey \in DOMAIN encodingTable :
               /\ Len(encodingTable[cKey].eKeys) >= 1
               /\ \E i \in 1..Len(recordsWritten(world)) :
                      /\ recordsWritten(world)[i].cKey = cKey
                      /\ encodingTable[cKey].eKeys = recordsWritten(world)[i].eKeys


\* ------------------------------------------------------------------------
\* Properties of the MFST manifest
\* ------------------------------------------------------------------------

\* C19: for every MFST block with deltas d[0..n) the emitted fileDataIds
\* are id[0] = d[0] and id[i] = id[i-1] + 1 + d[i], the running value
\* starting anew in each block, and every entry of the block carries the
\* block's locale bits decoded into localeFlags.
C19_FileDataIdsFromDeltas ==
    pc = "parsed" =>
        /\ rootFile.entries = flatten(log)
        /\ Len(log) <= Len(world.blocks)
        /\ world.cut = 0 => Len(log) = Len(world.blocks)
        /\ \A j \in 1..Len(log) :
               LET d == world.blocks[j].deltas
                   locale == world.blocks[j].locale
               IN  /\ Len(log[j]) = Len(d)
                   /\ \A i \in 1..Len(d) :
                          /\ log[j][i].fileDataId =
                                 IF i = 1 THEN d[1]
                                 ELSE log[j][i - 1].fileDataId + 1 + d[i]
                          /\ \A name \in DOMAIN LocaleFlags :
                                 log[j][i].localeFlags[name] =
                                     ((locale \div LocaleFlags[name]) % 2 = 1)
                          /\ ~log[j][i].localeFlags.plPL

\* a manifest of two blocks has been parsed: deltas 5, 5 give the ids 5, 11
\* in the first block, deltas 10, 0, 4 give 10, 11, 16 for enUS in the
\* second
C19_Witness ==
    /\ pc = "parsed"
    /\ Len(log) = 2
    /\ Len(log[1]) = 2
    /\ log[1][1].fileDataId = 5
    /\ log[1][2].fileDataId = 11
    /\ Len(log[2]) = 3
    /\ log[2][1].fileDataId = 10
    /\ log[2][2].fileDataId = 11
    /\ log[2][3].fileDataId = 16
    /\ \A i \in 1..3 : log[2][i].localeFlags.enUS

\* C20: within every parsed MFST block the fileDataIds are strictly
\* increasing.
C20_FileDataIdsIncrease ==
    pc = "parsed" =>
        \A j \in 1..Len(log) :
            \A i \in 2..Len(log[j]) :
                log[j][i].fileDataId > log[j][i - 1].fileDataId


\* ------------------------------------------------------------------------
\* Properties of loadArchives
\* ------------------------------------------------------------------------

\* the batch of the archive at position j (from 1): 0, 1, ..
batchIndex(j) == (j - 1) \div batchSize

settled(j) == tasks[j] \in {"done", "failed", "skipped"}

\* C21: during loadArchives at most 10 archive-index fetches are in flight
\* at any moment, and no fetch of batch k+1 is started before every fetch
\* of batch k has completed, successfully or not.
C21_BatchesOfTenJoined ==
    /\ Cardinality({j \in DOMAIN tasks : tasks[j] = "inflight"}) <= 10
    /\ \A i \in DOMAIN tasks, j \in DOMAIN tasks :
           (batchIndex(i) < batchIndex(j) /\ tasks[j] # "pending") =>
               settled(i)

\* the second batch is in flight after the first batch of ten has
\* completed, one of its fetches having failed
C21_Witness ==
    /\ pc = "loadArchives"
    /\ Len(tasks) > 10
    /\ tasks[11] = "inflight"
    /\ \E i \in 1..10 : tasks[i] = "failed"
    /\ \E i \in 1..10 : tasks[i] = "done"

\* ten fetches are in flight and the eleventh archive waits
C21_WitnessFullBatch ==
    /\ pc = "loadArchives"
    /\ Len(tasks) > 10
    /\ \A i \in 1..10 : tasks[i] = "inflight"
    /\ tasks[11] = "pending"


\* ------------------------------------------------------------------------
\* parseIndexEntry after an invalid record
\* ------------------------------------------------------------------------

\* the whole records (from 0) of the bytes parseIndexEntry reads whose size
\* is above 2 MiB
invalidRecords(buffer) ==
    {k \in 0..(Len(cutFooter(buffer)) \div recordSize - 1) :
        recordAt(buffer, k).size > maxEntrySize}

\* C22: parseIndexEntry stops at the first record whose size is invalid
\* (above 2 MiB) or that cannot be read in full: no entry located after
\* such a record in the input is emitted.
C22_StopsAtFirstInvalidRecord ==
    pc = "parsed" =>
        /\ Len(last.data) <= Len(cutFooter(world.buffer)) \div recordSize
        /\ invalidRecords(world.buffer) # {} =>
               LET first == CHOOSE k \in invalidRecords(world.buffer) :
                                \A l \in invalidRecords(world.buffer) : k <= l
               IN  last.data = [k \in 1..first |-> recordAt(world.buffer, k - 1)]


\* ------------------------------------------------------------------------
\* Properties of parseWar3
\* ------------------------------------------------------------------------

\* the line has a non-empty path field and a non-empty eKey field
completeLine(fields) ==
    Len(fields) >= 2 /\ fields[1] # <<>> /\ fields[2] # <<>>

\* C23: when a War3 manifest is parsed, every non-empty line whose path
\* field is empty or whose eKey field is empty or missing is skipped: it
\* produces no RootEntry, and the remaining lines are still parsed.
C23_IncompleteLinesSkipped ==
    pc = "parsed" =>
        LET kept == SelectSeq(world.lines, completeLine)
        IN  /\ Len(rootFile.entries) = Len(kept)
            /\ \A i \in 1..Len(kept) :
                   /\ rootFile.entries[i].contentKey = kept[i][2]
                   /\ rootFile.entries[i]._normalizedPath = toLowerCase(kept[i][1])

\* the line has a non-empty eKey field
lineWithEKey(fields) == Len(fields) >= 2 /\ fields[2] # <<>>

\* the same for the lines whose eKey field is empty or missing
C23_LinesWithoutEKeySkipped ==
    pc = "parsed" =>
        LET kept == SelectSeq(world.lines, lineWithEKey)
        IN  /\ Len(rootFile.entries) = Len(kept)
            /\ \A i \in 1..Len(kept) :
                   /\ rootFile.entries[i].contentKey = kept[i][2]
                   /\ rootFile.entries[i]._normalizedPath = toLowerCase(kept[i][1])


\* ------------------------------------------------------------------------
\* Nested BLTE frames
\* ------------------------------------------------------------------------

\* C24: decoding a BLTE blob whose 'F' blocks nest more than 8 levels deep
\* fails with an error instead of recursing further.
C24_DeepNestingRefused ==
    (pc = "decoded" /\ "nesting" \in DOMAIN world) =>
        (world.nesting > 8 => last.status = "error" /\ last.data = <<>>)


\* ------------------------------------------------------------------------
\* The encoding key init downloads
\* ------------------------------------------------------------------------

\* the space-separated tokens of buildConfig.encoding
encodingTokens ==
    IF "encoding" \in DOMAIN buildConfig THEN buildConfig["encoding"] ELSE <<>>

\* the data files requested so far, in order
dataRequests == SelectSeq(netlog, LAMBDA u : u.kind = "data")

\* C25: init uses the second space-separated token of buildConfig.encoding
\* as the key of the encoding blob to download, and fails without
\* downloading any encoding blob when that second token is absent.
C25_EncodingKeyIsSecondToken ==
    ("cdnConfig" \in Range(log)) =>
        IF Len(encodingTokens) >= 2
        THEN dataRequests # <<>> => dataRequests[1].file = encodingTokens[2]
        ELSE pc = "failed" /\ dataRequests = <<>>

\* the same for build configs whose encoding field has two tokens or none
C25_TwoTokensOrNone ==
    ("cdnConfig" \in Range(log) /\ Len(encodingTokens) # 1) =>
        IF Len(encodingTokens) >= 2
        THEN dataRequests # <<>> => dataRequests[1].file = encodingTokens[2]
        ELSE pc = "failed" /\ dataRequests = <<>>


\* ------------------------------------------------------------------------
\* Properties of BufferReader
\* ------------------------------------------------------------------------

\* the last operation was a read of bytes
byteRead == last.op \in DOMAIN ReadWidths \cup {"string", "raw", "rawRest"}

\* C26: after any sequence of BufferReader operations (seek, skip,
\* byte-oriented reads with non-negative lengths, bits) on a buffer of
\* length L, failing operations included, 0 <= offset <= L and the bit
\* offset is in 0..7; every read for which too few bytes remain fails with
\* a range error and returns no value.
C26_ReaderStaysInBuffer ==
    /\ 0 <= reader.offset
    /\ reader.offset <= Len(world.buffer)
    /\ reader.bitOffset \in 0..7
    /\ (byteRead /\ last.arg > Len(world.buffer) - last.before.offset) =>
           last.status = "RangeError" /\ last.data = <<>>
    /\ (/\ last.op = "bits"
        /\ last.arg > 8 * (Len(world.buffer) - last.before.offset)
                          - last.before.bitOffset) =>
           last.status = "RangeError" /\ last.data = <<>>

\* a read of two bytes has failed with one byte left, after alignToByte
\* moved the reader from inside the last but one byte
C26_Witness ==
    /\ last.op = "uint16be"
    /\ last.status = "RangeError"
    /\ last.before.bitOffset = 3
    /\ last.before.offset = Len(world.buffer) - 2
    /\ reader.offset = Len(world.buffer) - 1
    /\ reader.bitOffset = 0

\* bits(9) has failed after it consumed the last bits of the buffer
C26_WitnessBits ==
    /\ last.op = "bits"
    /\ last.arg = 9
    /\ last.status = "RangeError"
    /\ last.before.offset = Len(world.buffer) - 1
    /\ reader.offset = Len(world.buffer)


\* ------------------------------------------------------------------------
\* The CDN of the archive indices
\* ------------------------------------------------------------------------

\* the requests for archive index files made so far
indexRequests ==
    SelectSeq(netlog,
              LAMBDA u : u.kind = "data"
                           /\ u.file \in {"a1.index", "a2.index"})

\* C27: every archive index fetched during init is requested from the CDN
\* entry (host and path) that init selected and uses for the configs, the
\* encoding blob and the archive data, for every CDN list and region.
C27_IndexFromSelectedCdn ==
    \A i \in 1..Len(indexRequests) :
        /\ indexRequests[i].host = cdn.Hosts[1]
        /\ indexRequests[i].path = cdn.Path

\* the same for the CDN lists that name the region, or whose first entry is
\* the one init selects
C27_IndexFromSelectedCdnWhenListed ==
    (cdnList # <<>> /\ (named(Region) # {} \/ cdnList[1] = cdn)) =>
        \A i \in 1..Len(indexRequests) :
            /\ indexRequests[i].host = cdn.Hosts[1]
            /\ indexRequests[i].path = cdn.Path


\* ------------------------------------------------------------------------
\* The index map and the order in which index loads complete
\* ------------------------------------------------------------------------

\* the entries of the archives loaded among the first n of the list, set
\* into the map in list order
RECURSIVE mergedInListOrder(_)
mergedInListOrder(n) ==
    IF n = 0 THEN <<>>
    ELSE IF n \in loadedArchives
    THEN setAll(mergedInListOrder(n - 1), entriesOf(n))
    ELSE mergedInListOrder(n - 1)

\* C28: the index map produced by loadArchives is the same for every order
\* in which the concurrent index fetches of a batch complete: the entry
\* stored for an eKey does not depend on the interleaving (it is the one
\* that results when the loads complete in list order), and one archive's
\* entries are inserted atomically with respect to another's.
C28_IndexMapOrderIndependent ==
    /\ Len(log) >= 6 => indices = mergedInListOrder(Len(tasks))
    /\ \A j \in DOMAIN tasks :
           tasks[j] \in {"pending", "inflight"} =>
               \A e \in DOMAIN indices :
                   indices[e].archiveHash # archivesOf(cdnConfig)[j]

\* the insertions alone: at every moment the map holds every eKey of every
\* archive whose load has completed, each with an entry of such an archive,
\* and nothing of an archive whose load is pending or in flight
C28_InsertionsAtomic ==
    /\ \A j \in loadedArchives : \A k \in 1..Len(entriesOf(j)) :
           entriesOf(j)[k].eKey \in DOMAIN indices
    /\ \A e \in DOMAIN indices :
           \E j \in loadedArchives : indices[e] \in Range(entriesOf(j))

\* ------------------------------------------------------------------------
\* getFile and getFiles of one cKey
\* ------------------------------------------------------------------------

\* getFile(cKey) with every fetch succeeding
fileOf(cKey) ==
    getFile(world, cache, encodingTable, indices, cdn, cKey, TRUE)

\* getFiles([cKey]) with every fetch succeeding
filesOf(cKey) ==
    getFiles(world, cache, encodingTable, indices, cdn, <<cKey>>, {})

\* C29: for every cKey and every state of the tables, when all archive
\* fetches and BLTE decodes succeed, getFiles([cKey]) returns a map that
\* contains the key cKey if and only if getFile(cKey) returns a non-null
\* buffer, and when cKey has exactly one candidate eKey in the index both
\* return the same bytes.
C29_GetFilesOfOneAgreesWithGetFile ==
    pc = "ready" =>
        \A cKey \in Keys :
            \E f \in {fileOf(cKey)} : \E g \in {filesOf(cKey)} :
                (f.status # "error" /\ g.status = "ok") =>
                    /\ cKey \in DOMAIN g.data <=> f.status = "ok"
                    /\ Cardinality(indexed(cKey)) = 1 =>
                           /\ f.status = "ok"
                           /\ g.data[cKey] = f.data

\* getFiles([cKey]) has returned a map with the key cKey, for a cKey whose
\* only indexed candidate is another key, and getFile(cKey) returns the
\* same bytes
C29_Witness ==
    /\ last.op = "getFiles"
    /\ last.status = "ok"
    /\ Len(last.arg) = 1
    /\ Cardinality(indexed(last.arg[1])) = 1
    /\ last.arg[1] \notin indexed(last.arg[1])
    /\ last.arg[1] \in DOMAIN last.data
    /\ fileOf(last.arg[1]).status = "ok"
    /\ fileOf(last.arg[1]).data = last.data[last.arg[1]]
    /\ Len(last.data[last.arg[1]]) > 0

\* getFiles([cKey]) has returned the empty map and getFile(cKey) returns null
C29_WitnessNull ==
    /\ last.op = "getFiles"
    /\ last.status = "ok"
    /\ Len(last.arg) = 1
    /\ DOMAIN last.data = {}
    /\ fileOf(last.arg[1]).status = "null"

\* two candidates of the cKey are indexed and decode to different bytes:
\* getFile returns the first candidate's, the map holds the last one's
C29_WitnessTwoCandidates ==
    /\ last.op = "getFiles"
    /\ last.status = "ok"
    /\ Len(last.arg) = 1
    /\ Cardinality(indexed(last.arg[1])) = 2
    /\ fileOf(last.arg[1]).status = "ok"
    /\ fileOf(last.arg[1]).data # last.data[last.arg[1]]


====
